----------------------------- MODULE SerialTools -----------------------------
(***************************************************************************)
(* What the kernel promises about the tool calls of one model response     *)
(* (packages/core/src/tool.ts, the doc of Tool.locks): calls sharing any   *)
(* lock key are serialized, all others may overlap, and every call of a    *)
(* registered tool eventually returns.  How the promise is kept is the     *)
(* subject of ToolBatch, which implements this specification.              *)
(***************************************************************************)
EXTENDS Naturals

CONSTANTS NCalls,   \* how many calls the model response carries
          Locks     \* the resource lock keys tools may declare

Calls == 1..NCalls

VARIABLES batch,    \* batch[c]: is the tool of call c registered, and its locks
          status    \* status[c]: how far call c has come

avars == <<batch, status>>

Requests == [known : BOOLEAN, locks : SUBSET Locks]

SharesLock(c, d) == batch[c].locks \cap batch[d].locks # {}

AInit == /\ batch \in [Calls -> Requests]
         /\ status = [c \in Calls |-> "pending"]

\* A call may start when no running call shares one of its locks.
Begin(c) == /\ status[c] = "pending"
            /\ batch[c].known
            /\ \A d \in Calls : status[d] = "running" => ~SharesLock(c, d)
            /\ status' = [status EXCEPT ![c] = "running"]
            /\ UNCHANGED batch

End(c) == /\ status[c] = "running"
          /\ status' = [status EXCEPT ![c] = "returned"]
          /\ UNCHANGED batch

\* A call of a tool nobody registered is refused; it never runs.
Refuse(c) == /\ status[c] = "pending"
             /\ ~batch[c].known
             /\ status' = [status EXCEPT ![c] = "refused"]
             /\ UNCHANGED batch

ANext == \E c \in Calls : Begin(c) \/ End(c) \/ Refuse(c)

ASafe == AInit /\ [][ANext]_avars

AFairness == \A c \in Calls : WF_avars(Begin(c)) /\ WF_avars(End(c)) /\ WF_avars(Refuse(c))

ASpec == ASafe /\ AFairness
=============================================================================
