---------------------------- MODULE MCInitScript ----------------------------
(* Every script of up to three of these lines. *)
EXTENDS InitScript, SequencesExt

L(kind, args) == [kind |-> kind, args |-> args]

Lines == {
    L("start", <<"shell">>), L("spawn", <<"svc", "arg">>), L("spawn", <<>>),
    L("setenv", <<"K", "v">>), L("log", <<"msg">>), L("other", <<>>),
    L("regset", <<"HKCU\\A\\B", "one">>), L("regset", <<"HKCU\\A\\B", "two">>),
    L("regset", <<"HKCU\\A\\C", "one">>), L("regset", <<"HKCR\\A\\B", "one">>),
    L("regset", <<"HKCU\\A\\B">>), L("unreadable", <<>>)}

MCScripts == UNION {[1..n -> Lines] : n \in 0..3}

MCValidPaths == {"HKCU\\A\\B", "HKCU\\A\\C"}

\* No word is what it was.
MCLowBytes == [w \in UNION {Range(l.args) : l \in Lines} |-> w \o "'"]
=============================================================================
