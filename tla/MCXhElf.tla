------------------------------ MODULE MCXhElf ------------------------------
(* Small instances of XhElf: three libraries that import two functions, on *)
(* a data page and a relro page of their own and a page without a name.    *)
EXTENDS XhElf

Rel(y, t, s) == [sym |-> y, type |-> t, slot |-> s]
NoRel == Rel("none", "NONE", "a")

Image(plt, dyn, android, afterPlt, afterDyn) ==
  [syms |-> {"open", "read"}, plt |-> plt, dyn |-> dyn, android |-> android,
   afterPlt |-> afterPlt, afterDyn |-> afterDyn]

\* open and read called and open taken by address, with .rel.plt right behind
\* .rel.dyn; a packed table, with an impossible address; open with a slot on the page without a name, and
\* bytes beyond .rel.plt that read like a relocation.
MCImages ==
  LET plt == <<Rel("open", "JUMP_SLOT", "a"), Rel("read", "JUMP_SLOT", "b")>>
  IN {Image(plt,
            <<Rel("none", "RELATIVE", "b"), Rel("open", "GLOB_DAT", "c"), Rel("read", "ABS", "d")>>,
            <<>>, NoRel, plt[1]),
      Image(plt, <<>>,
            <<Rel("open", "ABS", "c"), Rel("open", "GLOB_DAT", "d"), Rel("read", "ABS", "f")>>,
            NoRel, NoRel),
      Image(<<Rel("read", "JUMP_SLOT", "b"), Rel("open", "JUMP_SLOT", "a")>>,
            <<Rel("none", "RELATIVE", "b"), Rel("open", "GLOB_DAT", "e"), Rel("open", "ABS", "c")>>,
            <<>>, Rel("read", "JUMP_SLOT", "d"), NoRel)}

\* open is replaced by one function; read by two, one after the other.
MCHooks == {[sym |-> "open", new |-> "my_open"],
            [sym |-> "read", new |-> "my_read"],
            [sym |-> "read", new |-> "my_read2"],
            [sym |-> "close", new |-> "my_close"]}

MCSlots == {"a", "b", "c", "d", "e", "f"}
MCPageOf == [s \in MCSlots |-> CASE s \in {"a", "b"} -> "relro" [] s = "e" -> "bss" [] OTHER -> "data"]
MCProts == {{"r"}, {"r", "w"}, {"x"}}
=============================================================================
