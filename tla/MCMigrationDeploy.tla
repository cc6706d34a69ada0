------------------------- MODULE MCMigrationDeploy -------------------------
(* The legacy migration and six others: one that quotes destructive words  *)
(* and uses none, one that renames, one that drops, and three the          *)
(* repository check must refuse: a version used twice, one that extends    *)
(* the legacy version, and one whose name sorts before the legacy one      *)
(* although its number is greater.                                         *)
EXTENDS MigrationDeploy

Code(text) == [kind |-> "code", text |-> <<" ">> \o text \o <<" ">>]
Quoting(kind, text) == [kind |-> kind, text |-> text]
File(version, label, script) == [version |-> version, label |-> label, script |-> script]

Additive == <<Code(<<"alter">>), Quoting("literal", <<"drop">>), Code(<<";">>),
              Quoting("line", <<"'", "drop">>), Code(<<"rename", ";">>)>>
Renaming == <<Quoting("block", <<"'">>), Code(<<";", "alter">>),
              Quoting("identifier", <<";">>), Code(<<"rename">>)>>
Dropping == <<Quoting("dollar", <<";">>), Code(<<"x", ";", "drop">>)>>

MCLegacy == File(<<2, 0>>, 1, <<Code(<<"x">>)>>)
MCFiles == {MCLegacy,
            File(<<2, 1, 1>>, 1, Additive),
            File(<<2, 1, 2>>, 1, Renaming),
            File(<<2, 1, 3>>, 1, <<Code(<<"x">>)>>),
            File(<<2, 1, 3>>, 2, Dropping),
            File(<<1, 9, 9>>, 1, Additive),
            File(<<2, 0, 1>>, 1, Additive)}
MCOutsiders == {<<2, 1, 3>>, <<2, 1, 4>>}

\* Every text of up to two elements that a quoting of this kind can hold,
\* and some longer ones, between two pieces of code.
Characters == {"'", "\"", "-", "/", "*", "$", ";", "\n", "drop", "\\"}
Texts(elements) == {<<>>} \cup {<<c>> : c \in elements} \cup (elements \X elements)
Quotings == {[kind |-> k, text |-> t] :
                k \in Kinds \ {"code", "block"}, t \in Texts(Characters)}
            \cup {Quoting("block", t) : t \in Texts(Characters \cup {"/*", "*/"})}
            \cup {Quoting("block", <<"/*", "'", "*/", "drop">>),
                  Quoting("block", <<"/*", "/*", "*/", "*", "*/", "-">>),
                  Quoting("tagged", <<"$", "$", "'", "$", "$">>),
                  Quoting("literal", <<"'", "'", ";", "drop">>)}
Around(quoting) == <<Code(<<"x">>), quoting, Code(<<"drop", ";">>)>>
MCScripts == {Around(q) : q \in {q \in Quotings : SegmentFits(q)}}
=============================================================================
