------------------------------ MODULE MCHostIo ------------------------------
(* A small instance of HostIo for TLC.                                     *)
EXTENDS HostIo

MCFiles == {1, 2}
MCHuge == {2}
MCTimes == {0, 2, 5}
MCRam == <<3, 17>>
MCPlaces == {7, 13}
Program(cb, up, down, flag, halt) == [cb |-> cb, layout |-> <<up, down>>, flag |-> flag, needsHalt |-> halt]
MCPrograms == {Program(0, 0, 0, 0, FALSE), Program(7, 1, 1, 0, FALSE), Program(7, 1, 1, 2, FALSE),
               Program(13, 1, 1, 2, TRUE), Program(7, 0, 0, 0, FALSE)}
MCRanges == {<<3, 17>>, <<8, 17>>}
MCMixedCalls == {"READC"}

=============================================================================
