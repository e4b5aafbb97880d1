---------------------------- MODULE MCAsyncRecorder ----------------------------
(* AsyncRecorder on a small instance.                                        *)
EXTENDS AsyncRecorder
=============================================================================
