------------------------------ MODULE MCLogger ------------------------------
(* A small instance of Logger: two callers that race with each other and    *)
(* with a Shutdown, and a second Init that finds what the first left.       *)
EXTENDS Logger
=============================================================================
