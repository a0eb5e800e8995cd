-------------------------------- MODULE Evidence --------------------------------
(***************************************************************************)
(* What FinalizeCollection (surfaces/hx/world.go) makes of the two           *)
(* collectors: Egress, whose stream must have ended without an error, and    *)
(* Collection, whose diff is taken only then.  The agent is stopped before   *)
(* the proxy, and the proxy before the broker.                               *)
(***************************************************************************)
EXTENDS Egress

CONSTANTS
    Paths, Above, Regular, Symlink, Workspaces,
    Sessions    \* the networks and workspaces that meet in one session, as pairs

\* Contents are told apart from the marks of the trees, the agent works at known
\* paths, and what is above a path that exists is a directory.
ASSUME WorkspacesAssumption ==
    /\ (Regular \union Symlink) \intersect {"none", "dir", "absent", "opaque", "whiteout"} = {}
    /\ \A p \in Paths : Above[p] \subseteq Paths
    /\ \A w \in Workspaces : w.touched \subseteq Paths
    /\ \A w \in Workspaces : \A tree \in w.lowers :
          /\ tree \in [Paths -> Regular \union Symlink \union {"none", "dir"}]
          /\ \A p \in Paths : tree[p] # "none" => \A q \in Above[p] : tree[q] = "dir"

VARIABLES workspace, lower, baseline, upper, intents, payload, rows

files == <<workspace, lower, baseline, upper, intents, payload, rows>>
evidence == <<vars, files>>

Files == INSTANCE Collection

EvidenceInit == Init /\ Files!Init /\ <<net, workspace>> \in Sessions

Agent == proxyUp /\ Files!agent /\ UNCHANGED vars
Host == Files!host /\ UNCHANGED vars

\* The drain of the effects, with the end of the context; their error; the diff.
drainFails ==
    /\ closing /\ (~effectsDone \/ effectsErr)
    /\ Files!collectionFails /\ UNCHANGED vars

\* Slip: an error of the effects is joined and the collection goes on.
EffectsAreSoundNot == effectsDone

EffectsAreSound == effectsDone /\ ~effectsErr

FinalizeCollection ==
    /\ EffectsAreSound
    /\ Files!FinalizeCollection \/ Files!scanFails
    /\ UNCHANGED vars

Network == Next /\ UNCHANGED files

EvidenceNext == Network \/ Agent \/ Host \/ drainFails \/ FinalizeCollection

EvidenceSpec == EvidenceInit /\ [][EvidenceNext]_evidence /\ WF_evidence(Broker /\ UNCHANGED files)

----------------------------------------------------------------------------
\* A session with a collector/fs_changed record has all of its evidence: the
\* record is exact, and every attempt the audit broker accepted is in the log.
EvidenceIsComplete ==
    Files!DiffIsExact /\ (Files!collected => accepted \subseteq recorded)

\* Match: the audit has every change and every report in one row, shows what was
\* not reported, and matches only what the workspace bears out.
RowsAreTrue == Files!RowsAreTrue

\* FR-AUD-02: no change is shown as unreported that some report corresponds to.
ReportedIsNotHidden == Files!ReportedIsNotHidden

\* FR-COL-02: nothing the agent does to its workspace prevents the record.
ChangesAreReported == Files!ChangesAreReported
=============================================================================
