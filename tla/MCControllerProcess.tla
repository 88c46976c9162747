------------------------ MODULE MCControllerProcess ------------------------
(* The controller with two workers.                                          *)
EXTENDS ControllerProcess

TwoWorkers == <<"w1", "w2">>
=============================================================================
