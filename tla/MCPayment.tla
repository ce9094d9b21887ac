----------------------------- MODULE MCPayment -----------------------------
(* Instances of Payment, in units of 500 zatoshi.                          *)
EXTENDS Payment, TLC

\* 9 is dust; 24 pays for two actions, 61 for six.
Values == {9, 24, 61, 200}
Note(p, v) == [pool |-> p, amount |-> v, addr |-> 1, ripe |-> TRUE]

\* n notes in the order of the pools, the larger first within a pool.
Wallets(n) ==
    {w \in [1 .. n -> {Note(p, v) : p \in Pool, v \in Values}] :
        \A i \in 1 .. n - 1 :
            \/ w[i].pool < w[i + 1].pool
            \/ w[i].pool = w[i + 1].pool /\ w[i].amount >= w[i + 1].amount}

Sending(w, p, v, active) ==
    [notes |-> w, source |-> Pool, pre |-> DOMAIN w,
     first |-> [pool |-> p, amount |-> v], others |-> NoOthers,
     pays |-> FALSE, smart |-> FALSE, migration |-> FALSE, ironwood |-> active]

\* Ironwood notes and receivers exist once NU6.3 is active, and an Orchard
\* address is then paid in Ironwood.
Sendings(W, P, V) ==
    {Sending(w, p, v, TRUE) : w \in W, p \in P \ {2}, v \in V}
    \cup {Sending(w, p, v, FALSE) :
            w \in {u \in W : \A i \in DOMAIN u : u[i].pool # 3}, p \in P \ {3}, v \in V}

EitherPays(R) == {[r EXCEPT !.pays = payer] : r \in R, payer \in BOOLEAN}

\* One recipient of any pool, whoever pays the fee.
Plain ==
    EitherPays(Sendings(Wallets(3), Pool, {60}))
    \cup EitherPays(Sendings(Wallets(0) \cup Wallets(2), Pool, {15}))

\* Amounts about the most that two notes can pay.
Limits == Sendings(Wallets(2), Pool, {31, 41, 52, 65, 144, 320})

\* A second recipient, a source without one pool, a note without
\* confirmations, a migration, a preselection.
Special ==
    LET few == {w \in Wallets(3) : \A i \in 1 .. 3 : w[i].pool < 3 /\ w[i].amount # 61}
    IN  UNION {{[r EXCEPT !.others[1] = [count |-> 1, value |-> 31]],
                [r EXCEPT !.others[0] = [count |-> 2, value |-> 50], !.pays = TRUE],
                [r EXCEPT !.source = {0, 2}],
                [r EXCEPT !.notes[1].ripe = FALSE],
                [r EXCEPT !.pre = {1, 3}]} : r \in Sendings(few, Pool, {60})}
        \cup {[Sending(w, p, 60, TRUE) EXCEPT !.migration = TRUE] :
                w \in few, p \in {2, 3}}

\* Two transparent addresses to shield.
Shielding ==
    {[r EXCEPT !.smart = TRUE, !.notes[1].addr = 2] :
        r \in Sendings({u \in Wallets(3) : u[2].pool = 0}, Shielded, {0})}

MCRequests == Plain \cup Limits \cup Special \cup Shielding
\* 100000 zatoshi in Sapling and 500000 in Orchard, 10000 to a Sapling address.
MCPrivate == {Sending(<<Note(1, 200), Note(2, 1000)>>, 1, 20, TRUE)}
=============================================================================
