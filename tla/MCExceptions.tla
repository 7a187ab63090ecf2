---------------------------- MODULE MCExceptions ----------------------------
(* Instances of Exceptions for model checking. *)
EXTENDS Exceptions

CONSTANTS standard, arithmetic, stop

\* StandardError, ArithmeticError, and the code 0, which stands for no type.
MCCodes == {{standard}, {standard, arithmetic}, {}}

\* Everything, ArithmeticError, StandardError.
MCCatchLists == {{}, {{standard, arithmetic}}, {{standard}}}

MCStopExecution == {stop}

=============================================================================
