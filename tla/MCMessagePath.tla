--------------------------- MODULE MCMessagePath ---------------------------
(* A small instance of MessagePath for TLC: the trees of the messages, the *)
(* access list, what the token table holds.                                *)
EXTENDS MimeTree

CONSTANTS good, bad, other,              \* clients
          alice, daemon, nobody,         \* senders
          bob, carol, train,             \* recipients
          gateway, unknown               \* hosts

MCRules == <<[net |-> {good, bad}, permit |-> TRUE],
             [net |-> {bad}, permit |-> FALSE]>>

MCOldFile == {[from |-> f, rcpts |-> <<bob>>, host |-> unknown,
               counted |-> TRUE, earlier |-> {},
               told |-> [open |-> TRUE, from |-> f, rcpts |-> <<bob>>,
                         host |-> unknown]] : f \in {alice, daemon}}

(* Boundaries: one of its own, the outer one again, one that extends it.   *)
Outer == <<"a">>
Inner == {<<"b">>, Outer, <<"a", "b">>}

UpTo(n, S) == UNION {[1 .. i -> S] : i \in 1 .. n}
LeavesOf(K) == {Leaf(k) : k \in K}

AllLeaves == LeavesOf({"text", "bulk", "listing", "calendar", "untyped",
                       "quote", "cut", "stub", "octet", "image"})
Around    == LeavesOf({"text", "octet", "cut"})
Inside    == LeavesOf({"text", "bulk", "untyped", "quote", "cut", "stub", "image"})

Multiparts == {Multi(b, p) : b \in Inner \cup {<<>>}, p \in UpTo(2, Inside)}
Messages   == {Wrap(k, n) : k \in {"message", "ours"},
                  n \in LeavesOf({"text", "octet"}) \cup
                        {Multi(b, p) : b \in Inner, p \in UpTo(2, Around)}}
(* Messages that were queue files once, for any of the two senders.        *)
Queued(k, f, r) == Enclose(k, EnvelopeLines(f, r), Leaf("text"))
Forwarded == {Queued(k, f, r) : k \in {"message", "ours"}, f \in {alice, daemon},
                 r \in {<<bob>>, <<train>>, <<bob, carol, bob, train>>}}
Nestings   == Multiparts \cup Messages
              \cup {Multi(<<"b">>, <<x, Leaf("text")>>) : x \in Messages}
              \cup {Wrap(k, Multi(<<"b">>, <<x>>)) : k \in {"message", "ours"},
                                                   x \in Forwarded}

MCTree == AllLeaves \cup {Multi(Outer, p) : p \in UpTo(2, AllLeaves)}
          \cup {Multi(Outer, u \o <<x>> \o v) :
                    u, v \in {<<>>} \cup UpTo(1, Around), x \in Nestings}
          \cup {Multi(Outer, <<x, y>>) : x, y \in Messages \cup Forwarded}

MCPlainTree == LeavesOf({"calendar"})

MCCounts == [nham : {0, 1, 4}, nspam : {0, 1, 4}]
MCTotals == {[nham |-> h, nspam |-> s] : h, s \in {0, 5}}
=============================================================================
