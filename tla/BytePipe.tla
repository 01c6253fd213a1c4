------------------------------ MODULE BytePipe ------------------------------
(***************************************************************************)
(* What a relay promises for one direction of a connection: bytes come out *)
(* in the order they went in, at most Capacity of them are inside, and     *)
(* when the writing side ends, the pipe is done only when everything that  *)
(* was written has been read, unless the reading side broke.               *)
(*                                                                         *)
(* The bytes are numbered, so that "in order, none lost, none twice" is    *)
(* that the bytes read are 1, 2, ... up to some number.                    *)
(***************************************************************************)
EXTENDS Naturals, Sequences

CONSTANTS Capacity

VARIABLES written,  \* how many bytes went in
          read,     \* the bytes that came out
          end       \* open, draining, done or broken

Init == written = 0 /\ read = <<>> /\ end = "open"

InOrder(s) == \A i \in 1 .. Len(s) : s[i] = i

(* Bytes go in while the writing side is open and come out while the        *)
(* reading side is.                                                         *)
Move ==
  /\ end \in {"open", "draining"}
  /\ written' \in Nat /\ written' >= written
  /\ end = "draining" => written' = written
  /\ Len(read') >= Len(read) /\ Len(read') <= written'
  /\ SubSeq(read', 1, Len(read)) = read
  /\ InOrder(read')
  /\ end' # "broken" => written' - Len(read') <= Capacity
  /\ \/ end' = end
     \/ end' = "draining"
     \/ end' = "done" /\ Len(read') = written'
     \/ end' = "broken"

Next == Move

Spec == Init /\ [][Next]_<<written, read, end>>
=============================================================================
