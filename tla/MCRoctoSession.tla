--------------------------- MODULE MCRoctoSession ---------------------------
(* Instances of RoctoSession: the texts.                                   *)
EXTENDS RoctoSession

S(kind) == <<kind, Rest>>
End == <<Semicolon>>

\* Accepted statements, with and without a last semicolon, and statements that
\* fail: first, in the middle and last.
SessionTexts == {S("rows") \o End \o <<Blank>> \o S("reject") \o End \o S("norows"),
                 S("begin") \o End \o S("insert") \o End \o S("update"),
                 S("bad") \o End \o S("delete") \o End \o S("unqualified") \o End,
                 <<>>}
=============================================================================
