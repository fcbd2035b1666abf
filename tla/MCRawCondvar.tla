---------------------------- MODULE MCRawCondvar ----------------------------
(* Threads that wait on a condition variable with two mutexes. *)
EXTENDS RawCondvar

TwoWaits == {WaitFor(FALSE), WaitWhileFor(TRUE)}

=============================================================================
