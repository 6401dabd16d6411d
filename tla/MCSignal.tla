------------------------------ MODULE MCSignal ------------------------------
(***************************************************************************)
(* The gear shift, the receiver's demodulator, the capture files and the   *)
(* busy detector, side by side for TLC: a behaviour runs one of them, and  *)
(* the others are not there.                                               *)
(***************************************************************************)
EXTENDS GearShift, Demod, Capture, Busy

VARIABLE shifting   \* the gear shift is the one that runs

-----------------------------------------------------------------------------
(* The 2000 Hz FM ladder (thr_2000_fm of core/link/datamodes.c), as far as *)
(* Modes goes, with capacities that grow as its frames do.                 *)

MCCap == [m \in Ladder |-> m + 1]
MCThresholds == [m \in Ladder |-> CASE m = Top -> 0 [] m = 0 -> 60
                                    [] OTHER -> 85]

\* No place for the symbol, and the last one.
MCDemPlaces == {-1, 359}
MCDemFines == {-2, 2}

\* The frames of one carrier and those of eight.
MCDemFrames == {f \in DemAllSpecs : f.car \in {1, 8}}

\* Windows that are quiet, wide and narrow, and a narrow one near the limit.
MCBsyRatios == {<<20, 0>>, <<0, 60>>, <<4, 0>>}

-----------------------------------------------------------------------------

SignalInit ==
    /\ Init
    /\ \/ shifting = TRUE /\ DemOff /\ CptOff /\ BsyOff
       \/ shifting = FALSE /\ DemInit /\ CptOff /\ BsyOff
       \/ shifting = FALSE /\ DemOff /\ CptInit /\ BsyOff
       \/ shifting = FALSE /\ DemOff /\ CptOff /\ BsyInit

signalVars == <<vars, shifting, dem, cptVars, bsy>>

SignalNext ==
    /\ UNCHANGED shifting
    /\ \/ shifting /\ Next /\ UNCHANGED <<dem, cptVars, bsy>>
       \/ DemNext /\ UNCHANGED <<vars, cptVars, bsy>>
       \/ CptNext /\ UNCHANGED <<vars, dem, bsy>>
       \/ BsyNext /\ UNCHANGED <<vars, dem, cptVars>>

\* GearShift's fairness where it runs, and that of the others.
SignalSpec ==
    /\ SignalInit /\ [][SignalNext]_signalVars
    /\ WF_vars(shifting /\ Answer) /\ WF_vars(shifting /\ IdleAck)
    /\ DemFairness /\ BsyFair

\* A good channel is used to the full, a receiver taken in by noise listens
\* again, and a channel that is free is reported free.
SignalSettles == Climbs /\ DemReturns /\ BsyClears
=============================================================================
