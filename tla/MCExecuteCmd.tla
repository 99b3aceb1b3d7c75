---------------------------- MODULE MCExecuteCmd ----------------------------
(* ExecuteCmd with pipes of two lines, and children that write two lines to  *)
(* each: enough to fill a pipe, and to leave lines in the buffer of the file *)
(* object while the pipe is empty.                                           *)
EXTENDS ExecuteCmd

MCLines == 2
MCCapacity == 2
=============================================================================
