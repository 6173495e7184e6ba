----------------------------- MODULE StoredFile -----------------------------
(***************************************************************************)
(* What the storing of a fetched file in the SPI flash promises to the     *)
(* autopilot, which reads the flash and knows nothing else of the chip:    *)
(* there is nothing, or there is a file, whole.                            *)
(***************************************************************************)
EXTENDS Naturals

CONSTANT Lens   \* lengths of the files being fetched

VARIABLES
  visible,   \* the words of the file in the flash, <<>> if there is none
  fetching,  \* the length of the file being fetched, 0 if there is none
  received,  \* all of it has been downloaded
  nFetches   \* fetches so far; numbers the files

vars == <<visible, fetching, received, nFetches>>

Whole(f, n) == [i \in 1..n |-> <<"word", f, i>>]

Init == visible = <<>> /\ fetching = 0 /\ received = FALSE /\ nFetches = 0

\* A fetch begins; the file before stays where it is, until all of the new one is here.
Fetch(n) ==
  /\ fetching = 0
  /\ fetching' = n /\ nFetches' = nFetches + 1
  /\ UNCHANGED <<visible, received>>

Receive ==
  /\ fetching # 0 /\ ~received
  /\ received' = TRUE
  /\ UNCHANGED <<visible, fetching, nFetches>>

\* The file before makes room.
MakeRoom ==
  /\ received
  /\ visible' = <<>>
  /\ UNCHANGED <<fetching, received, nFetches>>

\* The fetched file is there, all of it at once, where there was nothing.
Store ==
  /\ received
  /\ visible = <<>>
  /\ visible' = Whole(nFetches, fetching)
  /\ fetching' = 0 /\ received' = FALSE
  /\ UNCHANGED nFetches

\* The fetch has failed, or the chip has restarted.
GiveUp ==
  /\ fetching' = 0 /\ received' = FALSE
  /\ UNCHANGED <<visible, nFetches>>

Next == (\E n \in Lens : Fetch(n)) \/ Receive \/ MakeRoom \/ Store \/ GiveUp

Spec == Init /\ [][Next]_vars
=============================================================================
