----------------------------- MODULE MCRuleApply -----------------------------
(* Rule tables and rows small enough for TLC: every pipeline of up to three    *)
(* rules that can interfere with each other, family by family.                 *)
EXTENDS RuleApply

CONSTANTS food, rent, misc, x, k, v1, v2, s1

A(type, arg) == [type |-> type, arg |-> arg, value |-> None]
Set(v) == [type |-> "set_metadata", arg |-> k, value |-> v]
If(field, arg, value) == [field |-> field, arg |-> arg, value |-> value]
All == If("any", None, None)
Tagged == If("tags", x, None)
Foody == If("category", food, None)
Meta1 == If("metadata", k, v1)
R(on, cond, do) == [on |-> on, cond |-> cond, do |-> do]

TagActs == {A("add_tag", x), A("remove_tag", x)}
MetaActs == {Set(v1), Set(v2), A("remove_metadata", k)}

TagLists ==
  {<<R("always", All, <<a>>), R("always", c, <<b>>), R("always", All, <<e>>)>> :
     c \in {All, Tagged}, a, b, e \in TagActs}
MetaLists ==
  {<<R("always", All, <<a>>), R("always", c, <<b, e>>)>> :
     c \in {All, Meta1}, a \in {Set(v1), A("remove_metadata", k)}, b \in MetaActs,
     e \in {Set(v2), A("remove_metadata", k)}}
MixedLists ==
  {<<R(o, p[1], <<A("set_category", food), a>>), R("always", p[2], <<b>>)>> :
     o \in {"on_create", "always"}, p \in {<<Tagged, Foody>>, <<Foody, Tagged>>},
     a \in {A("add_tag", x), A("flag", None), A("add_comment", None)},
     b \in {A("set_category", rent), A("unflag", None), A("assign_series", s1)}}
  \cup {<<R("on_change", All, <<A("remove_tag", x), A("add_tag", x), Set(v1),
                               A("remove_metadata", k)>>)>>}

Lists == TagLists \cup MetaLists \cup MixedLists

Old == [Absent EXCEPT !.state = "live", !.category = food, !.tags = {x},
                      !.meta = [q \in Key |-> v1]]
Plain == [Absent EXCEPT !.state = "live", !.category = rent]
Gone == [Old EXCEPT !.state = "deleted"]
Rows == {<<Old, Plain>>, <<Gone, Absent>>}
=============================================================================
