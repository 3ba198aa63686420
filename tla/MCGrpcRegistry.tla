--------------------------- MODULE MCGrpcRegistry ---------------------------
(* Small instances of GrpcRegistry: the background mode and the foreground  *)
(* mode of the Android process.                                             *)
EXTENDS GrpcRegistry, TLC

CONSTANTS bg, fg
TwoModes == <<bg, fg>>
OneMode  == <<bg>>
Symmetric == Permutations(Caller) \cup Permutations(Server) \cup Permutations(Platform)
=============================================================================
