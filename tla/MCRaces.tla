------------------------------ MODULE MCRaces ------------------------------
(***************************************************************************)
(* The state that interrupt handlers and the main thread both change, for  *)
(* TLC: Keyboard, and KernelClock with Mirror.  The two share no variable, *)
(* so each of them moves while the other is as it was at boot: together    *)
(* they could do nothing else.  The labels of the code have the XOR of     *)
(* their characters, the counter wraps and there are more captures than    *)
(* slots.                                                                  *)
(***************************************************************************)
EXTENDS Keyboard, Mirror, Bitwise

MCXor(a, b) == a ^^ b

MCLabelSum == [l \in {"", "LIVE", "boot-snapshot", "user-snap"} |->
                  CASE l = ""              -> 0
                    [] l = "LIVE"          -> 22
                    [] l = "boot-snapshot" -> 55
                    [] l = "user-snap"     -> 48]

RacesInit == Init /\ MirrorInit

RacesNext == \/ MirrorInit /\ Next /\ UNCHANGED allVars
             \/ Init /\ MirrorNext /\ UNCHANGED vars

RacesSpec == RacesInit /\ [][RacesNext]_<<vars, allVars>>
=============================================================================
