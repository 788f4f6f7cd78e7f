---------------------------- MODULE BlockDevice ----------------------------
(***************************************************************************)
(* What the file systems expect of sdcard_read_sector and                  *)
(* sdcard_write_sector: every call takes effect on its whole sector in one *)
(* step between its start and its return.  A call that has failed never    *)
(* returns; if it is a write it may take effect once more, later.  And     *)
(* once a call has failed the device may get lost: then it promises        *)
(* nothing.                                                                *)
(***************************************************************************)
CONSTANTS Procs, Sectors, Data

VARIABLES
    blocks,     \* the sectors on the card
    request,    \* what each process has asked for, or been answered
    late,       \* the writes that have failed and may still take effect
    lost

Reads == [op : {"read"}, sector : Sectors]
Writes == [op : {"write"}, sector : Sectors, data : Data]
Answers == [op : {"answer"}, data : Data]
None == [op |-> "none"]
Failed == [op |-> "failed"]

Init ==
    /\ blocks \in [Sectors -> Data] /\ request = [p \in Procs |-> None]
    /\ late = {} /\ lost = FALSE

Ask(p) ==
    /\ request[p] = None
    /\ \E r \in Reads \cup Writes : request' = [request EXCEPT ![p] = r]
    /\ UNCHANGED <<blocks, late>>

Answer(p, d) == request' = [request EXCEPT ![p] = [op |-> "answer", data |-> d]]

Read(p) ==
    /\ request[p] \in Reads
    /\ Answer(p, blocks[request[p].sector])
    /\ UNCHANGED <<blocks, late>>

Put(w) == blocks' = [blocks EXCEPT ![w.sector] = w.data]

Write(p) ==
    /\ request[p] \in Writes
    /\ Put(request[p])
    /\ Answer(p, request[p].data)
    /\ UNCHANGED late

Return(p) ==
    /\ request[p].op = "answer"
    /\ request' = [request EXCEPT ![p] = None]
    /\ UNCHANGED <<blocks, late>>

Fail(p) ==
    /\ request[p] \in Reads \cup Writes \cup Answers
    /\ request' = [request EXCEPT ![p] = Failed]
    /\ late' \in {late, late \cup ({request[p]} \cap Writes)}
    /\ UNCHANGED blocks

WriteLate ==
    \E w \in late : Put(w) /\ late' = late \ {w} /\ UNCHANGED request

GetLost == lost' /\ (lost \/ \E p \in Procs : request[p] = Failed)

Next ==
    \/ GetLost
    \/ /\ ~lost /\ ~lost'
       /\ WriteLate \/ \E p \in Procs :
            Ask(p) \/ Read(p) \/ Write(p) \/ Return(p) \/ Fail(p)

Spec == Init /\ [][Next]_<<blocks, request, late, lost>>
=============================================================================
