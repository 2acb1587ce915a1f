------------------------------ MODULE FrameLink ------------------------------
(***************************************************************************)
(* What the serial protocol of the IMU promises: frames arrive in the      *)
(* order in which they were sent, some may be missing, none is altered,    *)
(* made up or handed over twice, and the reader stays in service, for as   *)
(* long as the line does no more damage than one checksum byte can detect. *)
(* YbImuFrames implements this specification byte by byte.                 *)
(***************************************************************************)
EXTENDS Naturals, Sequences

VARIABLES
  sent,     \* the frames written to the line
  got,      \* the frames handed to the decoder
  spoiled,  \* the line has done more damage than the checksum covers
  open      \* the reader is in service

linkVars == <<sent, got, spoiled, open>>

Extends(new, old) == /\ Len(new) = Len(old) + 1
                     /\ SubSeq(new, 1, Len(old)) = old

Subsequence(s, t) ==
  \E place \in [1..Len(s) -> 1..Len(t)] :
     /\ \A i, j \in 1..Len(s) : i < j => place[i] < place[j]
     /\ \A i \in 1..Len(s) : s[i] = t[place[i]]

LinkInit == sent = <<>> /\ got = <<>> /\ spoiled \in BOOLEAN /\ open = TRUE

Send == Extends(sent', sent) /\ UNCHANGED <<got, open>> /\ (spoiled => spoiled')

Spoil == spoiled' /\ UNCHANGED <<sent, got, open>>

Deliver == /\ open = TRUE
           /\ Extends(got', got)
           /\ spoiled \/ Subsequence(got', sent)
           /\ UNCHANGED <<sent, spoiled, open>>

Fail == spoiled /\ open = TRUE /\ open' = FALSE /\ UNCHANGED <<sent, got, spoiled>>

LinkNext == Send \/ Spoil \/ Deliver \/ Fail

LinkSpec == LinkInit /\ [][LinkNext]_linkVars
==============================================================================
