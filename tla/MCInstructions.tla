--------------------------- MODULE MCInstructions ---------------------------
(* The instructions and calls the runtime carries out itself, each on its own *)
(* operands: a state is about one subject, and question and answer are that   *)
(* module's variables.                                                        *)
EXTENDS Integers

VARIABLES subject, question, answer
vars == <<subject, question, answer>>

Memory == INSTANCE MemoryInstruction WITH
    Cells <- 16, Bases <- {0, 3, 8, 12, 255}, Contents <- {0, 5, 170, 255}, SpAlign <- 4
Arithmetic == INSTANCE CPUArithmetic WITH Wide <- 4, Narrow <- 2, Field <- 2
Buffers == INSTANCE SoftwareBuffers WITH
    SoftCells <- 4, NativeCells <- 2, PageCells <- 2, ScanSize <- 3, BounceSize <- 2, Bytes <- {0, 1}

Init ==
    \/ subject = "memory" /\ Memory!Init
    \/ subject = "arithmetic" /\ Arithmetic!Init
    \/ subject = "buffers" /\ Buffers!Init

Next ==
    /\ UNCHANGED subject
    /\ \/ subject = "memory" /\ Memory!Answers
       \/ subject = "arithmetic" /\ Arithmetic!Answers
       \/ subject = "buffers" /\ Buffers!Answers

Spec == Init /\ [][Next]_vars

-----------------------------------------------------------------------------
(* Properties, of the subject a state is about.                            *)

\* gm_memory_step does to registers and memory what the processor would: a load or
\* store that fails changes nothing, a compare-and-swap tells its caller what it
\* found, a structure is spread over its registers lane by lane.  The
\* interpreter's flags, conditions, shifts and immediates are the ones of exact
\* arithmetic, and no word decodes in two ways.
InstructionsAreExact ==
    /\ subject = "memory" =>
          /\ Memory!FailuresChangeNothing /\ Memory!LoadsReadIntegers /\ Memory!StoresReadBack
          /\ Memory!ExchangesTell /\ Memory!StructuresFit /\ Memory!StructuresInterleave
    /\ subject = "arithmetic" =>
          /\ Arithmetic!FlagsAreExact /\ Arithmetic!ConditionsCompare /\ Arithmetic!ShiftsAreExact
          /\ Arithmetic!ImmediatesAreRuns /\ Arithmetic!WordsDecodeOneWay

\* The replaced library calls give the results of the C library's on memory that is
\* partly software and partly native, through chunks, bounce buffers, overlaps
\* and pages that are not mapped.
BuffersAreExact ==
    subject = "buffers" =>
        /\ Buffers!ScansAreExact /\ Buffers!ComparisonsAreExact /\ Buffers!CopiesMove
        /\ Buffers!TransfersReportWhatTheyMove /\ Buffers!StringsAreWhole
=============================================================================
