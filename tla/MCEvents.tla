------------------------------ MODULE MCEvents ------------------------------
EXTENDS Events

Plain == [escapes |-> 0, rest |-> "plain"]

\* With and without each feature that one of the conversions treats apart.  The
\* names: a plain one, a stray percent sign, "50%25", none; the page: "%2525".
SomeEvents ==
    [name : {Plain, NoText} \cup [escapes : 0 .. 1, rest : {"refused"}],
     page : {NoText, [escapes |-> 2, rest |-> "refused"]},
     anonymous : {NoText, Literal("false")},
     meta : {<<>>, [k \in MetaKeys |-> Plain]},
     subscriptions : {<<>>, <<Plain, NoText>>, <<NoText, [escapes |-> 1, rest |-> "plain"]>>}]
=============================================================================
