----------------------------- MODULE MCAdmission -----------------------------
(* Requests and devices for the runs of Admission.  Frequencies are in     *)
(* units of 100 kHz.                                                       *)
EXTENDS Admission, TLC

CONSTANTS devS, devI, devJ   \* devS has a shared LO, devI and devJ have none

MCDev ==
    devS :> [shared |-> TRUE, rx |-> 2, freqs |-> {320, 352, 384}, bwmax |-> 64, srmin |-> 32, srmax |-> 160]
    @@ [d \in {devI, devJ} |->
          [shared |-> FALSE, rx |-> 2, freqs |-> {320}, bwmax |-> 64, srmin |-> 64, srmax |-> 128]]

Base ==
    [path |-> "find", mode |-> "SCHEDULED", from |-> 0, to |-> 2, cf |-> 320, bw |-> 32, sr |-> 128,
     rx |-> 1, ch |-> -1, rank |-> 0, prefer |-> devS, require |-> NoDevice]

CONSTANTS low, other, narrow, pinned, wide, off, coh, cal, solo

MCReq ==
    low :> Base
    @@ other :> [Base EXCEPT !.mode = "IMMEDIATE", !.cf = 384, !.sr = 64, !.rank = 1, !.rx = 2]
    @@ narrow :> [Base EXCEPT !.from = 1, !.to = 3, !.rank = 2]
    @@ pinned :> [Base EXCEPT !.mode = "CONTINUOUS", !.ch = 0, !.bw = 64, !.rank = 1]
    @@ wide :> [Base EXCEPT !.cf = 352, !.sr = 64, !.rank = 1, !.ch = 1]
    @@ off :> [Base EXCEPT !.ch = 2]
    @@ coh :> [Base EXCEPT !.path = "coherent", !.rx = 3]
    @@ cal :> [Base EXCEPT !.path = "calibration", !.mode = "IMMEDIATE", !.to = 1, !.rx = 2]
    @@ solo :> [Base EXCEPT !.ch = 1, !.prefer = NoDevice, !.require = devI, !.sr = 32]
=============================================================================
