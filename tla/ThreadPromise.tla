----------------------------- MODULE ThreadPromise -----------------------------
(***************************************************************************)
(* What the publish queue promises, whatever number of runs it takes and   *)
(* wherever they die: the slots of a thread (0 for the root, then the      *)
(* replies) are written strictly in order.  Only a row being posted posts, *)
(* only into the first slot without a record, and a record follows a live  *)
(* post.  The root and the first reply are the only slots that may be      *)
(* posted twice, and a row is posted when every slot has its record.       *)
(***************************************************************************)
EXTENDS Naturals

CONSTANTS Rows, Replies

Slots == 0..Replies
PostedTwice == {0, 1}

VARIABLES
  life,    (* the status of each row                                         *)
  live,    (* live posts carrying the text of each slot of each row          *)
  saved    (* the slots recorded in each row: all those below this one       *)

tvars == <<life, live, saved>>

TInit ==
  /\ life = [r \in Rows |-> "absent"]
  /\ live = [r \in Rows |-> [i \in Slots |-> 0]]
  /\ saved = [r \in Rows |-> 0]

Post(r) ==
  /\ life[r] = "posting"
  /\ saved[r] \in Slots
  /\ live[r][saved[r]] = 0 \/ saved[r] \in PostedTwice
  /\ live' = [live EXCEPT ![r][saved[r]] = @ + 1]
  /\ UNCHANGED <<life, saved>>

Record(r) ==
  /\ life[r] = "posting"
  /\ saved[r] \in Slots
  /\ live[r][saved[r]] > 0
  /\ saved' = [saved EXCEPT ![r] = @ + 1]
  /\ UNCHANGED <<life, live>>

Complete(r) ==
  /\ life[r] = "posting" /\ saved[r] = Replies + 1
  /\ life' = [life EXCEPT ![r] = "posted"]
  /\ UNCHANGED <<live, saved>>

\* A row enters the queue, is approved, is taken, is given up (also when only
\* the answer to the last write was lost) and is tried again.
Moves ==
  {<<"absent", "draft">>, <<"absent", "approved">>, <<"draft", "approved">>,
   <<"approved", "posting">>,
   <<"posting", "failed">>, <<"posted", "failed">>,
   <<"posting", "approved">>, <<"failed", "approved">>}

Move(r, to) ==
  /\ <<life[r], to>> \in Moves
  /\ life' = [life EXCEPT ![r] = to]
  /\ UNCHANGED <<live, saved>>

TNext ==
  \E r \in Rows :
    \/ Post(r) \/ Record(r) \/ Complete(r)
    \/ \E to \in {"draft", "approved", "posting", "failed"} : Move(r, to)

TSpec == TInit /\ [][TNext]_tvars
=============================================================================
