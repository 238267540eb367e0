----------------------------- MODULE MCComponents -----------------------------
(* The sequential components, each for itself: the network's buffer, the      *)
(* ring, the member table, the random picks, the schedule and the text of     *)
(* messages.  They share no state; a behaviour is one of the component that   *)
(* its initial state names, while the variables of the others stand still.    *)
EXTENDS EmulNet, Ring, MemberTable, RandomPicks, Driver, TLC

VARIABLES
    part,                   \* the component that runs
    sent, text, received    \* MessageText

textVars == <<sent, text, received>>
allVars == <<part, vars, ringVars, tableVars, pickVars, driverVars, textVars>>

(* Positions that the program computes for nodes 1 to 4 (std::hash of         *)
(* libstdc++), and keys at, before and behind each of them and at both ends.  *)
MCPosition == <<73, 99, 368, 53>>
MCKeyPosition == {0, 52, 53, 54, 73, 74, 99, 100, 368, 369, 511}

(* Keys and values of up to three characters. *)
X == INSTANCE MessageText WITH
        Letter <- {"a", "1"}, MaxLength <- 3, got <- received

ASSUME InstanceAssumption == X!TextAssumption

-------------------------------------------------------------------------------

PartInit ==
    /\ part \in {"EmulNet", "Ring", "MemberTable", "RandomPicks", "Driver", "MessageText"}
    /\ Init /\ RingInit /\ PickInit
    /\ TableInit /\ (part # "MemberTable" => currtime = 0)
    /\ DriverInit /\ (part # "Driver" => EN_GPSZ = 1)
    /\ X!Init /\ (part # "MessageText" => sent = X!Fields("READ", <<>>, X!Unset, X!Unset, X!Unset))

RunsEmulNet ==
    /\ part = "EmulNet" /\ Next
    /\ UNCHANGED <<part, ringVars, tableVars, pickVars, driverVars, textVars>>
RunsRing ==
    /\ part = "Ring" /\ RingNext
    /\ UNCHANGED <<part, vars, tableVars, pickVars, driverVars, textVars>>
RunsMemberTable ==
    /\ part = "MemberTable" /\ TableNext
    /\ UNCHANGED <<part, vars, ringVars, pickVars, driverVars, textVars>>
RunsRandomPicks ==
    /\ part = "RandomPicks" /\ PickNext
    /\ UNCHANGED <<part, vars, ringVars, tableVars, driverVars, textVars>>
RunsDriver ==
    /\ part = "Driver" /\ DriverNext
    /\ UNCHANGED <<part, vars, ringVars, tableVars, pickVars, textVars>>
RunsMessageText ==
    /\ part = "MessageText" /\ X!Next
    /\ UNCHANGED <<part, vars, ringVars, tableVars, pickVars, driverVars>>

PartNext ==
    \/ RunsEmulNet \/ RunsRing \/ RunsMemberTable
    \/ RunsRandomPicks \/ RunsDriver \/ RunsMessageText

PartSpec == PartInit /\ [][PartNext]_allVars
FairPartSpec == PartSpec /\ PickFairness

(* A message with a plain key and value is received as it was sent; see       *)
(* MessageText.                                                               *)
RoundTrip == X!RoundTrip
===============================================================================
