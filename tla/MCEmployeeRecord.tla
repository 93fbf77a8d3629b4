-------------------------- MODULE MCEmployeeRecord --------------------------
(* One hiring, with the bounds of the .cfg files on its dates and files.   *)
EXTENDS EmployeeRecord
=============================================================================
