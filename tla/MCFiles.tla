------------------------------- MODULE MCFiles -------------------------------
(***************************************************************************)
(* A small instance of FileIO: a character of two bytes to read, one of a  *)
(* byte and one of two to write, and buffers and pipes for one byte.       *)
(***************************************************************************)
EXTENDS FileIO, TLC

CONSTANTS t1, t2

MCIncoming == <<195, 169>>
MCOutgoing == <<98, 233>>
Plain(names, f) == {[do |-> d, file |-> f, flags |-> {}] : d \in names}
Unbuffered(f) == [do |-> "setbuf", file |-> f, flags |-> {"UnBuf"}]
MCBuiltins ==
    (t1 :> Plain({"getb", "end", "close"}, R))
    @@ (t2 :> Plain({"getc"}, R) \cup Plain({"putc", "flush"}, W) \cup {Unbuffered(W)})
=============================================================================
