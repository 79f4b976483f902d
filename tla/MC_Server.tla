----------------------------- MODULE MC_Server -----------------------------
(* Two connections, of one peer or of two; requests with and without a body,
   some cut within their headers or their body, and one that is never
   answered. *)
EXTENDS Server, TLC

CONSTANTS c1, c2, p, q, w1, w2

OnePeer == [c \in Conns |-> p]
TwoPeers == (c1 :> p) @@ (c2 :> q)

TwoThenOne == [c \in Conns |-> IF c = c1 THEN 2 ELSE 1]
OneThenTwo == [c \in Conns |-> IF c = c1 THEN 1 ELSE 2]
OneEach == [c \in Conns |-> 1]

Lengths == ("one" :> 1) @@ ("two" :> 2) @@ ("post" :> 1)

Get == <<"line", "head">>
\* A read that ends behind the length is taken for the end of this request.
Post == <<"line", "one", "end", "body">>
LongPost == <<"line", "two", "end", "body", "body">>
ShortPost == <<"post", "body">>
\* The end of its headers is never found.
Bare == <<"line", "end">>

GetOrPost == [c \in Conns |-> {Get, LongPost}]
PostAndGet == [c \in Conns |-> IF c = c1 THEN {Post} ELSE {Get}]
PostAndBare == [c \in Conns |-> IF c = c1 THEN {ShortPost} ELSE {Get, Bare}]

Symm == Permutations(Workers)
=============================================================================
