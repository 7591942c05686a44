---------------------------- MODULE HandoffProps ----------------------------
(* What the artifact-target handoff guarantees. *)
EXTENDS Handoff

\* What is saved is always a record the application can load: one supersession
\* chain, an active contract at its end or none, and for every authorisation
\* and every Driver attempt ready evidence that precedes it.
TypeOK == Readable(disk) /\ Readable(mem)

\* A Driver works only while its contract is the active end of the chain and
\* the newest reconciliation found it ready.
DriverRunsOnReadyTip ==
    pc \in {"created", "started"} /\ at \in Drivers =>
        LET a == Last(mem.atts) IN
        /\ a.contract = mem.active /\ mem.active = Tip(mem) /\ mem.active # 0
        /\ Last(mem.recs).contract = a.contract /\ Ready(Last(mem.recs))

\* Once a contract needed clarification, no attempt ever executes it again: the
\* clarification is not talked away by a later, luckier observation.
ClarifiedNeverExecutes ==
    \A k \in DOMAIN disk.atts, i \in DOMAIN disk.recs :
        ~Ready(disk.recs[i]) /\ disk.atts[k].contract = disk.recs[i].contract
            => k <= disk.recs[i].after

\* A Driver attempt behind a checkpoint was authorised by a human for the very
\* contract it executes; an authorisation does not carry over to a correction.
AuthorizationExact ==
    \A k \in DOMAIN disk.atts :
        LET C == {i \in DOMAIN disk.log : disk.log[i].manual /\ disk.log[i].after < k}
            i == CHOOSE i \in C : \A j \in C : j <= i
        IN  disk.atts[k].node \in Drivers /\ C # {} =>
                disk.log[i].resolved /\ disk.log[i].by = disk.atts[k].contract

\* After a return to the Architect, a contract is approved only on top of a
\* newer Architect attempt than the returned one.
ReturnNeedsNewArchitect ==
    \A i, j \in DOMAIN disk.corr :
        disk.corr[i].act = "return" /\ j = i + 1 /\ disk.corr[j].act = "approve"
            => disk.contracts[disk.corr[j].new].arch > disk.corr[i].after

\* The contract a Driver is admitted to was reconciled under the present write scope every
\* time since it was sealed or approved, and always ready; plan.md is still the Architect's
\* that it came from, and the target file is the baseline's or the last verified write's.
\* Whatever was edited meanwhile, and however clean the workspace looks again now.
StandsAsApproved ==
    /\ \A i \in DOMAIN mem.recs : mem.recs[i].contract = mem.active =>
          Ready(mem.recs[i]) /\ mem.recs[i].policy = policy
    /\ mem.contracts[mem.active].arch \in {0, plan}
    /\ file # Baseline => /\ file \in DOMAIN mem.atts /\ Completed(mem.atts[file])
                          /\ \A k \in DOMAIN mem.atts : mem.atts[k].wrote => k <= file

\* A Driver is admitted only to what the human and the workspace stand behind, across
\* edits, deaths and repeated resumes between the approval and the admission.
AdmittedRightly ==
    /\ [](DriverRunsOnReadyTip /\ ClarifiedNeverExecutes)
    /\ [][pc # "admitted" /\ pc' = "admitted" => StandsAsApproved']_vars

\* No contract, reconciliation or correction is ever lost or rewritten, and a
\* cancellation is the last: no role is executed and nothing corrected after it.
HistoryStands ==
    /\ [][/\ IsPrefix(disk.contracts, disk'.contracts)
          /\ IsPrefix(disk.recs, disk'.recs)
          /\ IsPrefix(disk.corr, disk'.corr)]_vars
    /\ [][(\E i \in DOMAIN disk.corr : disk.corr[i].act = "cancel")
            => disk'.atts = disk.atts /\ disk'.corr = disk.corr /\ disk'.active = 0]_vars

\* A pending checkpoint can always be answered: an idle Run that would be
\* refused for want of an authorisation is waiting for one.
CheckpointAnswerable ==
    pc = "idle" /\ ~Cancelled(disk) /\ ~Terminal(disk) /\ EntryNode(disk) \in Drivers
        /\ (\E i \in LastCheckpoint(disk) : ~disk.log[i].resolved)
        => disk.status = "awaiting-human"
=============================================================================
