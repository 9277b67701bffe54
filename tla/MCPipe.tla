------------------------------- MODULE MCPipe -------------------------------
(* Instances of Pipe for TLC: what is written is told apart by its bytes,   *)
(* and a file that is no pipe is open for reading and writing.              *)
EXTENDS Pipe

Byte  == {<<1>>}
Bytes == {<<1, 2>>}
Modes == {<<TRUE, TRUE>>}
=============================================================================
