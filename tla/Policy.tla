-------------------------------- MODULE Policy --------------------------------
(***************************************************************************)
(* core/policy: parsing, merging and evaluating profiles, as functions.      *)
(*                                                                           *)
(* A raw path is [abs, segs], its segments as they are written ("" between   *)
(* two slashes, "." and ".." included).  A host is a raw spelling; canonical *)
(* gives its lower-case form without a trailing dot.  A list that is only    *)
(* ever searched or intersected is a set: the code sorts and deduplicates.   *)
(***************************************************************************)
EXTENDS Integers, Sequences

CONSTANTS
    RawHosts, canonical,    \* spellings of hosts, and the canonical spelling of each
    Hostnames,              \* canonical spellings that are names (not empty, not an address)
    Empty                   \* the empty canonical host; also "no source" in a selector

ASSUME HostAssumption ==
    /\ canonical \in [RawHosts -> RawHosts]
    /\ \A h \in RawHosts : canonical[canonical[h]] = canonical[h]
    /\ Hostnames \subseteq RawHosts
    /\ Empty \in RawHosts /\ Empty \notin Hostnames /\ canonical[Empty] = Empty

canonicalHosts(hs) == {canonical[h] : h \in hs} \ {Empty}

----------------------------------------------------------------------------
\* Paths: path.Clean of an absolute path, and the boundary of a scope entry.

PutSeg(out, seg) ==
    IF seg \in {"", "."} THEN out
    ELSE IF seg # ".." THEN Append(out, seg)
    ELSE IF out = <<>> THEN out ELSE SubSeq(out, 1, Len(out) - 1)

Clean(p) ==
    LET cleaned[i \in 0..Len(p.segs)] ==
            IF i = 0 THEN <<>> ELSE PutSeg(cleaned[i - 1], p.segs[i])
    IN  [abs |-> p.abs, segs |-> cleaned[Len(p.segs)]]

Root(p) == p.abs /\ p.segs = <<>>
Below(base, p) == Len(base.segs) <= Len(p.segs) /\ SubSeq(p.segs, 1, Len(base.segs)) = base.segs

\* An entry that only cleaning makes the root grants nothing.
Covers(entry, workspace) ==
    /\ entry.abs
    /\ \/ Root(entry)
       \/ ~Root(Clean(entry)) /\ Below(Clean(entry), workspace)

workspaceAllowed(scope, workspace) == \E entry \in scope : Covers(entry, workspace)

----------------------------------------------------------------------------
\* Extension selectors: a name, or a name at a registry.

validSelector(s) == s.source = Empty \/ canonical[s.source] \in Hostnames
canonicalExtensionSelector(s) == [name |-> s.name, source |-> canonical[s.source]]
parsedSelectors(ss) == {canonicalExtensionSelector(s) : s \in {t \in ss : validSelector(t)}}

\* Slip: the selector of the overlay is taken as it is.
narrowSelectorRight(l, r) == r

\* The more specific of two selectors of one name.
narrowSelector(l, r) == IF l.source = Empty THEN r ELSE l

intersectExtensionSelectors(a, b) ==
    {narrowSelector(p[1], p[2]) : p \in
        {q \in parsedSelectors(a) \X parsedSelectors(b) :
            /\ q[1].name = q[2].name
            /\ q[1].source = Empty \/ q[2].source = Empty \/ q[1].source = q[2].source}}

----------------------------------------------------------------------------
\* ParseProfile: required fields, scopes and selectors are checked and stored
\* in canonical form; egress is stored as it is written.

parses(raw) ==
    /\ raw.wellFormed
    /\ \A p \in raw.fs : p.abs /\ (Root(Clean(p)) => Root(p))
    /\ \A s \in raw.ext : validSelector(s)
    /\ \A h \in raw.reg : canonical[h] \in Hostnames

storedScope(fs) == {Clean(p) : p \in fs}

ParseProfile(raw) ==
    [id |-> raw.id, fs |-> storedScope(raw.fs), egress |-> raw.egress,
     ext |-> parsedSelectors(raw.ext), reg |-> canonicalHosts(raw.reg),
     tokens |-> raw.tokens, timeMs |-> raw.timeMs, maxDepth |-> raw.maxDepth, auto |-> raw.auto]

----------------------------------------------------------------------------
min64(a, b) == IF a < b THEN a ELSE b

\* Merge.  mergeID joins the two identifiers, here the sequences of their parts.
Merge(base, overlay) ==
    [id |-> base.id \o overlay.id,
     fs |-> base.fs \cap overlay.fs,
     egress |-> base.egress \cap overlay.egress,
     ext |-> intersectExtensionSelectors(base.ext, overlay.ext),
     reg |-> canonicalHosts(base.reg) \cap canonicalHosts(overlay.reg),
     tokens |-> min64(base.tokens, overlay.tokens),
     timeMs |-> min64(base.timeMs, overlay.timeMs),
     maxDepth |-> min64(base.maxDepth, overlay.maxDepth),
     auto |-> base.auto /\ overlay.auto]

----------------------------------------------------------------------------
\* Evaluate.

\* NormalizeExtension accepts the declaration.
normalizes(e) ==
    e.wellFormed /\ canonical[e.source] \in Hostnames /\ \A h \in e.egress : canonical[h] \in Hostnames

\* The names and registries of the profile permit the extension.
authorized(p, e) ==
    /\ \E s \in parsedSelectors(p.ext) : s.name = e.name /\ s.source \in {Empty, canonical[e.source]}
    /\ canonical[e.source] \in canonicalHosts(p.reg)

identity(e) == <<e.name, e.version, canonical[e.source]>>

extensionsAllowed(p, exts) ==
    /\ \A i \in DOMAIN exts : normalizes(exts[i]) /\ authorized(p, exts[i])
    /\ \A i, j \in DOMAIN exts : identity(exts[i]) = identity(exts[j]) => i = j

requestedEgress(req) == req.egress \union UNION {req.exts[i].egress : i \in DOMAIN req.exts}

\* Is the request granted?
Granted(p, req) ==
    /\ req.depth < p.maxDepth
    /\ req.workspace.abs
    /\ workspaceAllowed(p.fs, Clean(req.workspace))
    /\ extensionsAllowed(p, req.exts)

\* The sandbox of a granted request.
Evaluate(p, req) ==
    [workspace |-> Clean(req.workspace),
     fs |-> p.fs,
     egress |-> canonicalHosts(requestedEgress(req)) \cap canonicalHosts(p.egress),
     exts |-> req.exts,
     tokens |-> p.tokens, timeMs |-> p.timeMs, maxDepth |-> p.maxDepth, auto |-> p.auto]

----------------------------------------------------------------------------
\* What it means that a sandbox stays within a profile.
Within(sandbox, p) ==
    /\ workspaceAllowed(p.fs, sandbox.workspace)
    /\ sandbox.egress \subseteq canonicalHosts(p.egress)
    /\ \A i \in DOMAIN sandbox.exts : authorized(p, sandbox.exts[i])
    /\ sandbox.tokens <= p.tokens /\ sandbox.timeMs <= p.timeMs /\ sandbox.maxDepth <= p.maxDepth
    /\ sandbox.auto => p.auto
=============================================================================
