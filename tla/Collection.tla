------------------------------ MODULE Collection ------------------------------
(***************************************************************************)
(* What an agent did to its workspace: the agent works on an overlay of the   *)
(* lower tree, fsdiff.go turns the upper tree into the fs_changed record, and *)
(* audit.go matches the record with the tool calls the agent reported.        *)
(***************************************************************************)
EXTENDS Naturals, Sequences

CONSTANTS
    Paths, Above,            \* the paths, and the directories above each
    Regular, Symlink,        \* contents of files and of symbolic links
    Workspaces               \* records [lowers, touched, contents, intents, disturbed]: lower trees to
                             \* start from, paths and contents the agent writes, a bound on the tool calls that are
                             \* reported, may others write to lower or a limit end the scan?

VARIABLES
    workspace,       \* the one of Workspaces this session has
    lower, baseline, \* the lower tree and its manifest, [Paths -> none, dir or a content]
    upper,           \* [Paths -> absent, dir, opaque, whiteout or a content]
    intents,         \* reported filesystem tool calls, in seq order
    payload,         \* the outcome of Diff: [status, changes]
    rows             \* the rows of the audit, or {} if it failed

vars == <<workspace, lower, baseline, upper, intents, payload, rows>>

Leaves == Regular \union Symlink
Kind(v) == IF v \in Regular THEN "regular" ELSE IF v \in Symlink THEN "symlink" ELSE v
Pending == [status |-> "pending", changes |-> {}]

Init ==
    /\ workspace \in Workspaces /\ lower \in workspace.lowers /\ baseline = lower /\ upper = [p \in Paths |-> "absent"]
    /\ intents = <<>> /\ payload = Pending /\ rows = {}

----------------------------------------------------------------------------
\* The overlay (the kernel's side): what is seen at a path, and how a change
\* is kept in upper.

lowerShown(p) == lower[p] # "none" /\ \A q \in Above[p] : upper[q] \in {"absent", "dir"}

seenAt(p) ==
    CASE upper[p] \in Leaves -> upper[p]
      [] upper[p] \in {"dir", "opaque"} -> "dir"
      [] upper[p] = "absent" /\ lowerShown(p) -> lower[p]
      [] OTHER -> "none"

withParents(p) == [q \in Paths |-> IF q \in Above[p] /\ upper[q] = "absent" THEN "dir" ELSE upper[q]]

inDirectory(p) == \A q \in Above[p] : seenAt(q) = "dir"

\* A tool call is reported with its path and the change its name stands for.
report(p, types) ==
    \/ UNCHANGED intents
    \/ /\ Len(intents) < workspace.intents
       /\ \E t \in types : intents' = Append(intents, [path |-> p, type |-> t])

running == payload = Pending /\ UNCHANGED <<workspace, baseline, payload, rows>>

put(p, v) ==
    /\ running /\ v \in workspace.contents /\ inDirectory(p) /\ seenAt(p) # "dir"
    /\ upper' = [withParents(p) EXCEPT ![p] = v]
    /\ report(p, {"added", "modified"}) /\ UNCHANGED lower

remove(p) ==
    /\ running /\ seenAt(p) # "none" /\ \A q \in Paths : p \in Above[q] => seenAt(q) = "none"
    /\ upper' = [q \in Paths |->
          IF q = p THEN IF lowerShown(p) THEN "whiteout" ELSE "absent"
          ELSE IF p \in Above[q] THEN "absent" ELSE withParents(p)[q]]
    /\ report(p, IF seenAt(p) \in Leaves THEN {"deleted"} ELSE {}) /\ UNCHANGED lower

makeDir(p) ==
    /\ running /\ inDirectory(p) /\ seenAt(p) = "none"
    /\ upper' = [withParents(p) EXCEPT ![p] = IF upper[p] = "whiteout" THEN "opaque" ELSE "dir"]
    /\ UNCHANGED <<lower, intents>>

\* A call that was reported and had no effect.
claim(p) ==
    /\ running /\ report(p, {"added", "modified", "deleted"}) /\ intents' # intents
    /\ UNCHANGED <<lower, upper>>

hostWrites(p, v) ==
    /\ running /\ workspace.disturbed /\ v \in workspace.contents /\ lower[p] \in Leaves \ {v}
    /\ lower' = [lower EXCEPT ![p] = v] /\ UNCHANGED <<upper, intents>>

----------------------------------------------------------------------------
\* Diff.

\* The directories whose lower content upper hides.
opaqueDirs ==
    {p \in Paths : upper[p] = "opaque" \/ (baseline[p] = "dir" /\ upper[p] \in Leaves \union {"whiteout"})}

Change(p, v, t) == [path |-> p, hash |-> v, type |-> t]
Deleted(p) == Change(p, baseline[p], "deleted")

walkDeleted ==
    {Deleted(p) : p \in {p \in Paths : baseline[p] \in Leaves /\ upper[p] \in {"whiteout", "dir", "opaque"}}}

walkWritten ==
    {Change(p, upper[p], IF Kind(baseline[p]) = Kind(upper[p]) THEN "modified" ELSE "added") :
        p \in {p \in Paths : upper[p] \in Leaves}}

expandOpaque ==
    {Deleted(p) : p \in {p \in Paths :
        baseline[p] \in Leaves /\ upper[p] = "absent" /\ Above[p] \intersect opaqueDirs # {}}}

\* A whiteout of nothing, or a link in the place of a file.
invalidUpper ==
    \E p \in Paths :
        \/ upper[p] = "whiteout" /\ baseline[p] = "none"
        \/ upper[p] \in Leaves /\ baseline[p] \in Leaves /\ Kind(upper[p]) # Kind(baseline[p])

lowerChanged == lower # baseline

Diff ==
    IF lowerChanged \/ invalidUpper THEN [status |-> "failed", changes |-> {}]
    ELSE [status |-> "ok", changes |-> walkDeleted \union walkWritten \union expandOpaque]

----------------------------------------------------------------------------
\* Match: the intents and effects of a path are paired in order of seq.  The
\* effects are the changes of one record and share its seq: two for one path are
\* an error, and the only one meets the first intent.

compatible(reported, observed) == (reported = "deleted") = (observed = "deleted")

Row(class, p, i, c) == [class |-> class, path |-> p, intent |-> i, effect |-> c]

ambiguous(changes) == \E c, d \in changes : c # d /\ c.path = d.path

\* Slip: only the paths of the intents are compared.
matchKeysIntents(changes) == {intents[i].path : i \in DOMAIN intents}

matchKeys(changes) == {intents[i].path : i \in DOMAIN intents} \union {c.path : c \in changes}

\* i is is[0] and c is es[0] of their path.
pair(i, c) ==
    /\ intents[i].path = c.path /\ \A j \in 1..(i - 1) : intents[j].path # c.path
    /\ compatible(intents[i].type, c.type)

matchedRows(is, es) ==
    {Row("matched", x[2].path, x[1], x[2].type) : x \in {x \in is \X es : pair(x[1], x[2])}}
reportedRows(is, es) ==
    {Row("reported_unobserved", intents[i].path, i, "none") : i \in {i \in is : \A c \in es : ~pair(i, c)}}
observedRows(is, es) ==
    {Row("observed_unreported", c.path, 0, c.type) : c \in {c \in es : \A i \in is : ~pair(i, c)}}

\* No rows if nothing was changed and something was reported.
Match(changes) ==
    LET is == {i \in DOMAIN intents : intents[i].path \in matchKeys(changes)}
        es == {c \in changes : c.path \in matchKeys(changes)}
    IN  IF ambiguous(changes) \/ (changes = {} /\ intents # <<>>) THEN {}
        ELSE matchedRows(is, es) \union reportedRows(is, es) \union observedRows(is, es)

FinalizeCollection ==
    /\ payload = Pending
    /\ payload' = Diff
    /\ rows' = IF Diff.status = "ok" THEN Match(Diff.changes) ELSE {}
    /\ UNCHANGED <<workspace, lower, baseline, upper, intents>>

\* The collection fails before its diff is complete, and nothing is recorded.
collectionFails ==
    /\ payload = Pending /\ payload' = [status |-> "failed", changes |-> {}]
    /\ UNCHANGED <<workspace, lower, baseline, upper, intents, rows>>

\* A limit of nodes, depth, bytes or changes, the context, or a file that
\* changes while it is hashed.
scanFails == workspace.disturbed /\ collectionFails

Finished == payload # Pending /\ UNCHANGED vars

----------------------------------------------------------------------------
agent == \E p \in workspace.touched : remove(p) \/ makeDir(p) \/ claim(p) \/ (\E v \in Leaves : put(p, v))
host == \E p \in Paths, v \in Leaves : hostWrites(p, v)

Next ==
    \/ agent \/ host \/ FinalizeCollection \/ scanFails \/ Finished

Spec == Init /\ [][Next]_vars

----------------------------------------------------------------------------
collected == payload.status = "ok"
ofType(t) == {c \in payload.changes : c.type = t}

\* A record that is emitted is the difference between the baseline and what the
\* agent saw last, whatever whiteouts, opaque directories and replacements the
\* changes left in upper: deletions and additions exactly, with the hash that
\* was there or is there, and no content changed silently; a path has one change.
\* "A lower mutation is a collection failure": then there is no record.
DiffIsExact ==
    collected =>
        /\ lower = baseline
        /\ ofType("deleted") = {Change(p, baseline[p], "deleted") :
              p \in {p \in Paths : baseline[p] \in Leaves /\ seenAt(p) \notin Leaves}}
        /\ ofType("added") = {Change(p, seenAt(p), "added") :
              p \in {p \in Paths : baseline[p] \notin Leaves /\ seenAt(p) \in Leaves}}
        /\ \A p \in Paths : {baseline[p], seenAt(p)} \subseteq Leaves =>
              IF baseline[p] # seenAt(p) THEN Change(p, seenAt(p), "modified") \in payload.changes
              ELSE {c \in payload.changes : c.path = p} \subseteq {Change(p, baseline[p], "modified")}

One(S) == \E x \in S : S = {x}

\* Every change is in one row of the table and every report in one, so nothing
\* is counted twice and nothing disappears; a change at a path the agent did not
\* report is shown as observed and unreported; and a match is backed by the
\* workspace: what was reported as written is there, as deleted is gone.
RowsAreTrue ==
    collected /\ (payload.changes # {} \/ intents = <<>>) =>
        /\ \A c \in payload.changes :
              /\ One({r \in rows : r.path = c.path /\ r.effect # "none"})
              /\ (\A i \in DOMAIN intents : intents[i].path # c.path) =>
                    Row("observed_unreported", c.path, 0, c.type) \in rows
        /\ \A i \in DOMAIN intents : One({r \in rows : r.intent = i})
        /\ \A r \in rows : r.class = "matched" =>
              /\ intents[r.intent].path = r.path
              /\ (intents[r.intent].type = "deleted") = (seenAt(r.path) \notin Leaves)

\* FR-AUD-02: observed and unreported means that no report corresponds to it.
ReportedIsNotHidden ==
    \A r \in rows : r.class = "observed_unreported" =>
        ~\E i \in DOMAIN intents : intents[i].path = r.path /\ compatible(intents[i].type, r.effect)

\* FR-COL-02: the list of changed files is emitted when the agent is done; what
\* the agent does in its own workspace does not prevent it.
ChangesAreReported == [][FinalizeCollection /\ lower = baseline => payload'.status = "ok"]_vars
=============================================================================
