------------------------------ MODULE Admission ------------------------------
(***************************************************************************)
(* runProduction up to the claim: the pin of the policy files is checked,    *)
(* the files are read again, parsed and merged, and the request is evaluated *)
(* against the result.  The files may be edited at any time.                 *)
(***************************************************************************)
EXTENDS Policy

CONSTANTS
    ExtensionNames,
    Raws,               \* what a policy file may contain
    Files,              \* number of files: the profile and its overlays
    Workspaces,         \* raw paths a request may name
    Budgets,            \* records [tokens, timeMs, maxDepth] a request may ask for
    MaxEdits            \* bound: edits of the files during one admission

ASSUME FilesAssumption == Files \in Nat \ {0}

ASSUME RawAssumption ==
    \A raw \in Raws :
        /\ raw.egress \subseteq RawHosts /\ raw.reg \subseteq RawHosts
        /\ raw.ext \subseteq [name : ExtensionNames, source : RawHosts]
        /\ raw.tokens \in Nat /\ raw.timeMs \in Nat /\ raw.maxDepth \in Nat /\ raw.auto \in BOOLEAN

ASSUME BudgetAssumption == Budgets \subseteq [tokens : Nat, timeMs : Nat, maxDepth : Nat]

VARIABLES
    files,              \* contents of the policy files, profile first
    edits,
    request,            \* profile hash (the contents it stands for), profile id, workspace, budget
    stage,                 \* pin, read, merged, evaluated, admitted, rejected
    hashed,             \* contents pinnedProfileHash has read
    read,               \* profiles readProfile returned
    effective, sandbox

admissionVars == <<files, edits, request, stage, hashed, read, effective, sandbox>>

idOf(contents) ==
    LET ids[i \in 0..Files] == IF i = 0 THEN <<>> ELSE ids[i - 1] \o contents[i].id IN ids[Files]

Nothing == [none |-> TRUE]

AdmissionInit ==
    /\ files \in [1..Files -> Raws] /\ edits = 0
    /\ \E w \in Workspaces, b \in Budgets :
           request = [hash |-> files, id |-> idOf(files), workspace |-> w, budget |-> b]
    /\ stage = "pin" /\ hashed = <<>> /\ read = <<>> /\ effective = Nothing /\ sandbox = Nothing

\* Somebody edits a policy file before the decision.
edit ==
    /\ stage \notin {"admitted", "rejected"} /\ edits < MaxEdits /\ edits' = edits + 1
    /\ \E i \in 1..Files, raw \in Raws : files' = [files EXCEPT ![i] = raw]
    /\ UNCHANGED <<request, stage, hashed, read, effective, sandbox>>

\* pinnedProfileHash: one file after the other.
pinnedProfileHash ==
    /\ stage = "pin" /\ Len(hashed) < Files
    /\ hashed' = Append(hashed, files[Len(hashed) + 1])
    /\ UNCHANGED <<files, edits, request, stage, read, effective, sandbox>>

comparePin ==
    /\ stage = "pin" /\ Len(hashed) = Files
    /\ stage' = IF hashed = request.hash THEN "read" ELSE "rejected"
    /\ UNCHANGED <<files, edits, request, hashed, read, effective, sandbox>>

merged(p) == IF read = <<>> THEN p ELSE Merge(effective, p)

\* readProfile and, for an overlay, Merge.
readProfile ==
    /\ stage = "read" /\ Len(read) < Files
    /\ LET raw == files[Len(read) + 1] IN
       \/ /\ ~parses(raw) /\ stage' = "rejected" /\ UNCHANGED <<read, effective>>
       \/ /\ parses(raw)
          /\ read' = Append(read, ParseProfile(raw)) /\ effective' = merged(ParseProfile(raw))
          /\ UNCHANGED stage
    /\ UNCHANGED <<files, edits, request, hashed, sandbox>>

checkID ==
    /\ stage = "read" /\ Len(read) = Files
    /\ stage' = IF effective.id = request.id THEN "merged" ELSE "rejected"
    /\ UNCHANGED <<files, edits, request, hashed, read, effective, sandbox>>

spawnRequest ==
    [workspace |-> request.workspace, egress |-> effective.egress, exts |-> <<>>, depth |-> 0]

evaluate ==
    /\ stage = "merged"
    /\ \/ /\ Granted(effective, spawnRequest)
          /\ sandbox' = Evaluate(effective, spawnRequest) /\ stage' = "evaluated"
       \/ /\ ~Granted(effective, spawnRequest)
          /\ stage' = "rejected" /\ UNCHANGED sandbox
    /\ UNCHANGED <<files, edits, request, hashed, read, effective>>

\* Slip: the budget of the request is not compared on the axis of time.
budgetFitsTokens(b) == b.tokens <= sandbox.tokens /\ b.maxDepth <= sandbox.maxDepth

budgetFits(b) == b.tokens <= sandbox.tokens /\ b.timeMs <= sandbox.timeMs /\ b.maxDepth <= sandbox.maxDepth

\* The budget in effect is the one of the request: it may only be smaller.
checkBudget ==
    /\ stage = "evaluated"
    /\ \/ /\ budgetFits(request.budget) /\ stage' = "admitted"
          /\ sandbox' = [sandbox EXCEPT !.tokens = request.budget.tokens, !.timeMs = request.budget.timeMs,
                                        !.maxDepth = request.budget.maxDepth]
       \/ ~budgetFits(request.budget) /\ stage' = "rejected" /\ UNCHANGED sandbox
    /\ UNCHANGED <<files, edits, request, hashed, read, effective>>

Finished == stage \in {"admitted", "rejected"} /\ UNCHANGED admissionVars

AdmissionNext ==
    \/ edit \/ pinnedProfileHash \/ comparePin \/ readProfile \/ checkID \/ evaluate \/ checkBudget
    \/ Finished

AdmissionSpec == AdmissionInit /\ [][AdmissionNext]_admissionVars

----------------------------------------------------------------------------
AdmissionTypeOK ==
    /\ files \in [1..Files -> Raws] /\ edits \in 0..MaxEdits
    /\ stage \in {"pin", "read", "merged", "evaluated", "admitted", "rejected"}
    /\ hashed \in Seq(Raws) /\ Len(hashed) <= Files /\ Len(read) <= Files
    /\ read # <<>> => \A p \in effective.fs : p.abs /\ Clean(p) = p
    /\ read # <<>> => canonicalHosts(effective.reg) = effective.reg /\ effective.reg \subseteq Hostnames

\* Merge only strengthens (FR-POL-03): whatever is admitted stays within every
\* profile that was read, the first as the last: its scope, its egress, its
\* budget on every axis and its approval mode.
MergeOnlyNarrows ==
    stage = "admitted" => \A i \in DOMAIN read : Within(sandbox, read[i])

\* Merge permits an extension exactly if every profile read does: selectors
\* with and without a registry meet in every order, and none is lost.
MergeIsExact ==
    \A e \in {[name |-> n, source |-> h] : n \in ExtensionNames, h \in Hostnames} :
        read # <<>> => (authorized(effective, e) <=> \A i \in DOMAIN read : authorized(read[i], e))

\* The admitted sandbox is no wider than any profile read, and the merged policy
\* no narrower on extensions than all of them together.
MergeIsSound == MergeOnlyNarrows /\ MergeIsExact

\* "the pinned file contents and the files at execution must agree": what is
\* admitted was evaluated from the contents the request pinned.
PolicyIsPinned ==
    stage = "admitted" => \A i \in DOMAIN read : read[i] = ParseProfile(request.hash[i])
=============================================================================
