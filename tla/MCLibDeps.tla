------------------------------ MODULE MCLibDeps ------------------------------
(* LibDeps with one program and two libraries. *)
EXTENDS LibDeps

Lib(lib, form, version) == [lib |-> lib, form |-> form, version |-> version]

Foo1 == Lib("libfoo", "dot", <<1>>)
Foo2 == Lib("libfoo", "dot", <<2>>)
Dl   == Lib("libdl", "dot", <<2>>)
Libc == Lib("libc", "dot", <<6>>)

MCFiles    == {"app", "foo", "libc"}
MCVital    == {"libc"}
MCLibNames == {Foo1, Foo2, Dl, Libc, Lib("libfoo", "hyphen", <<1, 4>>),
               Lib("libfoo", "dot", <<1, 4>>), Lib("libc", "hyphen", <<2, 33>>)}

(* libfoo-1.4.so and libc-2.33.so are recorded; libdl is a stub of glibc;  *)
(* the program needs an old and a newer libfoo.                            *)
MCRecorded ==
  [f \in MCFiles |-> CASE f = "app"  -> {}
                       [] f = "foo"  -> {Lib("libfoo", "hyphen", <<1, 4>>)}
                       [] f = "libc" -> {Lib("libc", "hyphen", <<2, 33>>)}]
MCProvides ==
  [f \in MCFiles |-> CASE f = "app" -> {} [] f = "foo" -> {Foo1} [] f = "libc" -> {Libc}]
MCNeeds ==
  [f \in MCFiles |-> CASE f = "app"  -> {Foo1, Foo2, Dl, Libc}
                       [] f = "foo"  -> {Libc}
                       [] f = "libc" -> {}]
MCStubs   == {Dl}

Symbol(name, mark, version) == [name |-> name, mark |-> mark, version |-> version]

Frob    == Symbol("frob", "", "")
Lost    == Symbol("lost", "", "")
Puts    == Symbol("puts", "@", "GLIBC_2.2.5")
DefPuts == Symbol("puts", "@@", "GLIBC_2.2.5")
OldCopy == Symbol("memcpy", "@", "GLIBC_2.2.5")

(* The C library defines a default version of one symbol and an old one of *)
(* another; the plain symbols are one that is defined and one that is not. *)
MCSymbols == {Frob, Lost, Puts, DefPuts, OldCopy}
MCExports ==
  [f \in MCFiles |-> CASE f = "app"  -> {}
                       [] f = "foo"  -> {Frob}
                       [] f = "libc" -> {DefPuts, OldCopy}]
MCImports ==
  [f \in MCFiles |-> CASE f = "app"  -> {Frob, Puts, OldCopy, Lost}
                       [] f = "foo"  -> {Puts}
                       [] f = "libc" -> {}]
=============================================================================
