--------------------------- MODULE MCAtomdownEdits ---------------------------
(* Small pages for the two Atomdown views. *)
EXTENDS AtomdownEdits

Atom(id) == AtomTag([n \in {"id"} |-> id])
Para(body) == Text("para", body)
Item(body) == Text("list", body)
Reviewed(id, body) == AtomTag([n \in {"id", "digest"} |-> IF n = "id" THEN id ELSE <<body>>])
Group(id) == Open([n \in {"id"} |-> id])

\* A marked document: an atom reviewed as it is, one never reviewed, one implicit.
Plain == <<Doc, Reviewed("a", "x"), Para("x"), Blank, Atom("b"), Para("y"), Blank, Para("z")>>
\* A group of two, and an atom whose text has changed since its review.
Grouped == <<Group("g"), Atom("a"), Para("x"), Blank, Atom("b"), Para("y"), Close, Blank,
             Reviewed("c", "old"), Para("z")>>
\* Uneven seams, no document line, list blocks whose digest cannot be checked.
Uneven == <<Blank, Atom("a"), Item("x"), Blank, Blank, Atom("b"), Item("y"), Item("z"),
            Atom("c"), Para("w"), Blank>>
\* Two groups without an id.
Faulted == <<Open(<<>>), Atom("a"), Para("x"), Close, Blank, Open(<<>>), Atom("b"), Para("y"), Close>>
\* Two blocks nobody has given a directive.
Loose == <<Atom("a"), Para("x"), Blank, Para("y"), Blank, Para("z")>>

MCPages == {Plain, Grouped, Uneven, Faulted}
MCLoosePages == {Loose}
MCFaultedPages == {Faulted}
MCNames == {<<>>, <<"new", "~", "name">>}
MCBlocks == {<<Para("edited")>>, <<Para("two"), Blank, Para("blocks"), Blank>>}
MCTypedLines == {Para("typed")}
=============================================================================
