---------------------------- MODULE DescriptorsProof ----------------------------
(***************************************************************************)
(* Theorems about Descriptors, for any numbers, sockets and files.         *)
(***************************************************************************)
EXTENDS Descriptors, FiniteSetTheorems, TLAPS

(* What each holder would close, as a function: the proof sees the holders   *)
(* only through it and through meant.                                        *)
Numbers == [h \in Holders |-> Number(h)]
Kind(h) == h[1]

-------------------------------------------------------------------------------
(* The invariant, over any numbers N, meanings M, table T, set U of those    *)
(* undercut, and F files.                                                    *)

Sorted(N, M, T, U, F) ==
    /\ F \in Nat /\ U \subseteq Holders
    /\ N \in [Holders -> Fds \cup {-1}]
    /\ M \in [Holders -> 0 .. F] /\ T \in [Fds -> 0 .. F]

\* A file is open under one number.
OneNumberEach(T) == \A m, n \in Fds : T[m] = T[n] /\ T[m] # 0 => m = n

\* A number stands for the file it was given out for, unless undercut.
True(N, M, T, U) ==
    \A h \in Holders : N[h] \in Fds => M[h] # 0 /\ (h \notin U => T[N[h]] = M[h])

\* As long as no number was handed on, no two holders mean the same file.
OneEach(N, M, U) ==
    /\ U = {}
    /\ \A g, h \in Holders : N[g] \in Fds /\ N[h] \in Fds /\ M[g] = M[h] => g = h

\* As long as one socket at most was made of each number, only the server and
\* one socket may mean the same file.
Tied(g, h) == Kind(g) = "client" /\ Kind(h) \in {"client", "socket"}

OneSocketEach(N, M, U) ==
    /\ \A h \in U : Kind(h) = "client"
    /\ \A g, h \in Holders :
         N[g] \in Fds /\ N[h] \in Fds /\ M[g] = M[h] =>
           g = h \/ Tied(g, h) \/ Tied(h, g)

-------------------------------------------------------------------------------
(* A holder gets a number nobody has, with a new file.                       *)

LEMMA OpenTrue ==
    ASSUME NEW N, NEW M, NEW T, NEW U, NEW F, Sorted(N, M, T, U, F),
           OneNumberEach(T), True(N, M, T, U),
           NEW h \in Holders, NEW n \in Fds, T[n] = 0,
           NEW V \in SUBSET U, U \ {h} \subseteq V
    PROVE  LET P == [N EXCEPT ![h] = n]
               Q == [M EXCEPT ![h] = F + 1]
               R == [T EXCEPT ![n] = F + 1]
           IN /\ Sorted(P, Q, R, V, F + 1) /\ OneNumberEach(R) /\ True(P, Q, R, V)
              /\ OneEach(N, M, U) => OneEach(P, Q, V)
              /\ OneSocketEach(N, M, U) => OneSocketEach(P, Q, V)
<1> DEFINE P == [N EXCEPT ![h] = n]
           Q == [M EXCEPT ![h] = F + 1]
           R == [T EXCEPT ![n] = F + 1]
<1>1. /\ F \in Nat /\ N \in [Holders -> Fds \cup {-1}] /\ M \in [Holders -> 0 .. F]
      /\ T \in [Fds -> 0 .. F] /\ U \subseteq Holders
  BY DEF Sorted
<1>2. /\ \A g \in Holders : M[g] \in Nat /\ M[g] # F + 1
      /\ \A m \in Fds : T[m] \in Nat /\ T[m] # F + 1
      /\ F + 1 \in Nat /\ F + 1 # 0
  BY <1>1
<1>3. /\ \A g \in Holders : P[g] = IF g = h THEN n ELSE N[g]
      /\ \A g \in Holders : Q[g] = IF g = h THEN F + 1 ELSE M[g]
      /\ \A m \in Fds : R[m] = IF m = n THEN F + 1 ELSE T[m]
  BY <1>1
<1>4. Sorted(P, Q, R, V, F + 1)
  BY <1>1 DEF Sorted
<1> HIDE DEF P, Q, R
<1>5. OneNumberEach(R)
  BY <1>2, <1>3 DEF OneNumberEach
<1>6. True(P, Q, R, V)
  BY <1>2, <1>3 DEF True
<1>7. OneEach(N, M, U) => OneEach(P, Q, V)
  BY <1>2, <1>3 DEF OneEach
<1>8. OneSocketEach(N, M, U) => OneSocketEach(P, Q, V)
  BY <1>2, <1>3 DEF OneSocketEach
<1> QED
  BY <1>4, <1>5, <1>6, <1>7, <1>8 DEF P, Q, R

(* A holder gets no number, whatever it is said to mean; a new file may be   *)
(* open under a number of nobody's.                                          *)
LEMMA NobodyTrue ==
    ASSUME NEW N, NEW M, NEW T, NEW U, NEW F, Sorted(N, M, T, U, F),
           True(N, M, T, U), OneNumberEach(T),
           NEW G \in Nat, F <= G, NEW R \in [Fds -> 0 .. G], OneNumberEach(R),
           \A m \in Fds : T[m] # 0 => R[m] = T[m],
           NEW P \in [Holders -> Fds \cup {-1}], NEW Q \in [Holders -> 0 .. G],
           \A g \in Holders : P[g] = -1 \/ (P[g] = N[g] /\ Q[g] = M[g]),
           NEW V \in SUBSET U, \A g \in U \ V : P[g] = -1
    PROVE  /\ Sorted(P, Q, R, V, G) /\ True(P, Q, R, V)
           /\ OneEach(N, M, U) => OneEach(P, Q, V)
           /\ OneSocketEach(N, M, U) => OneSocketEach(P, Q, V)
<1>1. /\ F \in Nat /\ N \in [Holders -> Fds \cup {-1}] /\ M \in [Holders -> 0 .. F]
      /\ T \in [Fds -> 0 .. F] /\ U \subseteq Holders
  BY DEF Sorted
<1>2. -1 \notin Fds
  BY NumbersAssumption
<1>3. Sorted(P, Q, R, V, G)
  BY <1>1 DEF Sorted
<1>4. True(P, Q, R, V)
  BY <1>2 DEF True
<1>5. OneEach(N, M, U) => OneEach(P, Q, V)
  BY <1>2 DEF OneEach
<1>6. OneSocketEach(N, M, U) => OneSocketEach(P, Q, V)
  BY <1>2 DEF OneSocketEach
<1> QED
  BY <1>3, <1>4, <1>5, <1>6

(* The holders hs close what they have, and those of them who are freed      *)
(* forget it.                                                                *)
Gone(N, T, hs) == {IF N[h] \in Fds THEN T[N[h]] ELSE 0 : h \in hs} \ {0}

LEMMA CloseTrue ==
    ASSUME NEW N, NEW M, NEW T, NEW U, NEW F, Sorted(N, M, T, U, F),
           True(N, M, T, U), OneNumberEach(T),
           NEW hs \in SUBSET Holders, NEW freed \in {hs, {}},
           NEW P \in [Holders -> Fds \cup {-1}],
           \A h \in Holders : P[h] = -1 \/ (P[h] = N[h] /\ h \notin freed)
    PROVE  LET gone == Gone(N, T, hs)
               Q == [h \in Holders |-> IF h \in freed THEN 0 ELSE M[h]]
               R == [n \in Fds |-> IF T[n] \in gone THEN 0 ELSE T[n]]
               V == (U \cup {h \in Holders : N[h] \in Fds /\ M[h] \in gone}) \ freed
           IN /\ Sorted(P, Q, R, V, F) /\ OneNumberEach(R) /\ True(P, Q, R, V)
              /\ freed = hs /\ OneEach(N, M, U) => OneEach(P, Q, V)
              /\ (freed = hs /\ (\A h \in hs : Kind(h) # "client")
                    /\ OneSocketEach(N, M, U))
                   => OneSocketEach(P, Q, V)
<1> DEFINE gone == Gone(N, T, hs)
           Q == [h \in Holders |-> IF h \in freed THEN 0 ELSE M[h]]
           R == [n \in Fds |-> IF T[n] \in gone THEN 0 ELSE T[n]]
           V == (U \cup {h \in Holders : N[h] \in Fds /\ M[h] \in gone}) \ freed
<1>1. /\ F \in Nat /\ N \in [Holders -> Fds \cup {-1}] /\ M \in [Holders -> 0 .. F]
      /\ T \in [Fds -> 0 .. F] /\ U \subseteq Holders
  BY DEF Sorted
<1>2. -1 \notin Fds
  BY NumbersAssumption
<1>3. /\ \A h \in Holders : Q[h] = IF h \in freed THEN 0 ELSE M[h]
      /\ \A n \in Fds : R[n] = IF T[n] \in gone THEN 0 ELSE T[n]
      /\ \A h \in Holders : h \in V <=>
           h \notin freed /\ (h \in U \/ (N[h] \in Fds /\ M[h] \in gone))
      /\ V \subseteq Holders
  <2> HIDE DEF gone
  <2>1. \A h \in Holders : Q[h] = IF h \in freed THEN 0 ELSE M[h]
    OBVIOUS
  <2>2. \A n \in Fds : R[n] = IF T[n] \in gone THEN 0 ELSE T[n]
    OBVIOUS
  <2>3. V \subseteq Holders
    BY <1>1
  <2>4. \A h \in Holders : h \in V <=>
          h \notin freed /\ (h \in U \/ (N[h] \in Fds /\ M[h] \in gone))
    BY <1>1
  <2> QED
    BY <2>1, <2>2, <2>3, <2>4
<1>4. \A f \in gone : f # 0 /\ \E g \in hs : N[g] \in Fds /\ T[N[g]] = f
  BY DEF Gone
<1>5. Q \in [Holders -> 0 .. F]
  <2>1. 0 \in 0 .. F
    BY <1>1
  <2> HIDE DEF gone
  <2> QED
    BY <1>1, <2>1
<1>6. R \in [Fds -> 0 .. F]
  <2>1. 0 \in 0 .. F
    BY <1>1
  <2> HIDE DEF gone
  <2> QED
    BY <1>1, <2>1
<1> HIDE DEF gone, Q, R, V
<1>7. Sorted(P, Q, R, V, F)
  BY <1>1, <1>3, <1>5, <1>6 DEF Sorted
<1>8. OneNumberEach(R)
  BY <1>3 DEF OneNumberEach
<1>9. True(P, Q, R, V)
  <2> SUFFICES ASSUME NEW h \in Holders, P[h] \in Fds
               PROVE  Q[h] # 0 /\ (h \notin V => R[P[h]] = Q[h])
    BY DEF True
  <2>1. P[h] = N[h] /\ h \notin freed
    BY <1>2
  <2>2. M[h] # 0 /\ (h \notin U => T[N[h]] = M[h])
    BY <2>1 DEF True
  <2>3. Q[h] = M[h]
    BY <1>3, <2>1
  <2>4. ASSUME h \notin V PROVE R[P[h]] = Q[h]
    <3>1. h \notin U /\ M[h] \notin gone
      BY <1>3, <2>1, <2>4
    <3>2. T[N[h]] = M[h] /\ T[N[h]] \notin gone
      BY <2>2, <3>1
    <3>3. R[N[h]] = T[N[h]]
      BY <1>3, <2>1, <3>2
    <3> QED
      BY <2>1, <2>3, <3>2, <3>3
  <2> QED
    BY <2>2, <2>3, <2>4
\* Who meant a file that is gone meant that of a holder that closed it.
<1>10. ASSUME NEW h \in Holders, N[h] \in Fds, M[h] \in gone, hs \cap U = {}
       PROVE  \E g \in hs : N[g] \in Fds /\ M[g] = M[h]
  <2>1. PICK g \in hs : N[g] \in Fds /\ T[N[g]] = M[h]
    BY <1>4, <1>10
  <2>2. T[N[g]] = M[g]
    BY <1>10, <2>1 DEF True
  <2> QED
    BY <2>1, <2>2
<1>11. freed = hs /\ OneEach(N, M, U) => OneEach(P, Q, V)
  <2> SUFFICES ASSUME freed = hs, OneEach(N, M, U) PROVE OneEach(P, Q, V)
    OBVIOUS
  <2>1. V = {}
    <3> SUFFICES ASSUME NEW h \in V PROVE FALSE
      OBVIOUS
    <3>1. h \in Holders /\ h \notin freed /\ N[h] \in Fds /\ M[h] \in gone
      BY <1>3 DEF OneEach
    <3>2. PICK g \in hs : N[g] \in Fds /\ M[g] = M[h]
      BY <1>10, <3>1 DEF OneEach
    <3>3. g = h
      BY <3>1, <3>2 DEF OneEach
    <3> QED
      BY <3>1, <3>3
  <2>2. ASSUME NEW g \in Holders, NEW h \in Holders,
               P[g] \in Fds, P[h] \in Fds, Q[g] = Q[h]
        PROVE  g = h
    <3>1. P[g] = N[g] /\ P[h] = N[h] /\ Q[g] = M[g] /\ Q[h] = M[h]
      BY <1>2, <1>3, <2>2
    <3> QED
      BY <2>2, <3>1 DEF OneEach
  <2> QED
    BY <2>1, <2>2 DEF OneEach
<1>12. (freed = hs /\ (\A h \in hs : Kind(h) # "client") /\ OneSocketEach(N, M, U))
         => OneSocketEach(P, Q, V)
  <2> SUFFICES ASSUME freed = hs, \A h \in hs : Kind(h) # "client",
                      OneSocketEach(N, M, U)
               PROVE  OneSocketEach(P, Q, V)
    OBVIOUS
  <2>1. hs \cap U = {}
    BY DEF OneSocketEach
  <2>2. ASSUME NEW h \in V PROVE Kind(h) = "client"
    <3>1. h \in Holders /\ h \notin freed /\ (h \in U \/ (N[h] \in Fds /\ M[h] \in gone))
      BY <1>3
    <3>2. CASE h \in U
      BY <3>2 DEF OneSocketEach
    <3>3. CASE N[h] \in Fds /\ M[h] \in gone
      <4>1. PICK g \in hs : N[g] \in Fds /\ M[g] = M[h]
        BY <1>10, <2>1, <3>1, <3>3
      <4>2. g = h \/ Tied(g, h) \/ Tied(h, g)
        BY <3>1, <3>3, <4>1 DEF OneSocketEach
      <4> QED
        BY <3>1, <4>1, <4>2 DEF Tied
    <3> QED
      BY <3>1, <3>2, <3>3
  <2>3. ASSUME NEW g \in Holders, NEW h \in Holders,
               P[g] \in Fds, P[h] \in Fds, Q[g] = Q[h]
        PROVE  g = h \/ Tied(g, h) \/ Tied(h, g)
    <3>1. P[g] = N[g] /\ P[h] = N[h] /\ Q[g] = M[g] /\ Q[h] = M[h]
      BY <1>2, <1>3, <2>3
    <3> QED
      BY <2>3, <3>1 DEF OneSocketEach
  <2> QED
    BY <2>2, <2>3 DEF OneSocketEach
<1> QED
  BY <1>7, <1>8, <1>9, <1>11, <1>12 DEF gone, Q, R, V

(* A socket k, which had no number, takes over what holder h has.            *)
LEMMA TakeTrue ==
    ASSUME NEW N, NEW M, NEW T, NEW U, NEW F, Sorted(N, M, T, U, F),
           True(N, M, T, U), OneNumberEach(T),
           NEW h \in Holders, N[h] \in Fds, NEW k \in Holders, N[k] = -1,
           NEW V, V = IF h \in U THEN U \cup {k} ELSE U \ {k}
    PROVE  LET P == [N EXCEPT ![k] = N[h]]
               Q == [M EXCEPT ![k] = M[h]]
           IN /\ Sorted(P, Q, T, V, F) /\ True(P, Q, T, V)
              /\ (/\ OneSocketEach(N, M, U) /\ h \notin U
                  /\ Kind(h) = "client" /\ Kind(k) = "socket"
                  /\ \A g \in Holders : Kind(g) = "socket" => N[g] # N[h])
                   => OneSocketEach(P, Q, V)
<1> DEFINE P == [N EXCEPT ![k] = N[h]]
           Q == [M EXCEPT ![k] = M[h]]
<1>1. /\ F \in Nat /\ N \in [Holders -> Fds \cup {-1}] /\ M \in [Holders -> 0 .. F]
      /\ T \in [Fds -> 0 .. F] /\ U \subseteq Holders
  BY DEF Sorted
<1>2. -1 \notin Fds /\ k # h
  BY NumbersAssumption
<1>3. /\ \A g \in Holders : P[g] = IF g = k THEN N[h] ELSE N[g]
      /\ \A g \in Holders : Q[g] = IF g = k THEN M[h] ELSE M[g]
  BY <1>1
<1>4. Sorted(P, Q, T, V, F)
  BY <1>1 DEF Sorted
<1> HIDE DEF P, Q
<1>5. True(P, Q, T, V)
  <2> SUFFICES ASSUME NEW g \in Holders, P[g] \in Fds
               PROVE  Q[g] # 0 /\ (g \notin V => T[P[g]] = Q[g])
    BY DEF True
  <2>1. CASE g = k
    BY <1>3, <2>1 DEF True
  <2>2. CASE g # k
    BY <1>3, <2>2 DEF True
  <2> QED
    BY <2>1, <2>2
<1>6. ASSUME OneSocketEach(N, M, U), h \notin U, Kind(h) = "client", Kind(k) = "socket",
             \A g \in Holders : Kind(g) = "socket" => N[g] # N[h]
      PROVE  OneSocketEach(P, Q, V)
  <2>1. \A g \in V : Kind(g) = "client"
    BY <1>6 DEF OneSocketEach
\* Who else means the file of h is a client.
  <2>2. ASSUME NEW g \in Holders, g # k, N[g] \in Fds, M[g] = M[h]
        PROVE  Kind(g) = "client"
    <3>1. g = h \/ Tied(g, h) \/ Tied(h, g)
      BY <1>6, <2>2 DEF OneSocketEach
    <3>2. Kind(g) = "client" \/ Kind(g) = "socket"
      BY <1>6, <3>1 DEF Tied
    <3>3. ASSUME Kind(g) = "socket" PROVE FALSE
      <4>1. g \notin U
        BY <1>6, <3>3 DEF OneSocketEach
      <4>2. T[N[g]] = M[g] /\ T[N[h]] = M[h] /\ M[h] # 0
        BY <1>6, <2>2, <4>1 DEF True
      <4>3. N[g] = N[h]
        BY <2>2, <4>2 DEF OneNumberEach
      <4> QED
        BY <1>6, <3>3, <4>3
    <3> QED
      BY <3>2, <3>3
  <2>3. ASSUME NEW f \in Holders, NEW g \in Holders,
               P[f] \in Fds, P[g] \in Fds, Q[f] = Q[g]
        PROVE  f = g \/ Tied(f, g) \/ Tied(g, f)
    <3>1. CASE f # k /\ g # k
      BY <1>3, <1>6, <2>3, <3>1 DEF OneSocketEach
    <3>2. CASE f = k /\ g # k
      BY <1>3, <1>6, <2>2, <2>3, <3>2 DEF Tied
    <3>3. CASE f # k /\ g = k
      BY <1>3, <1>6, <2>2, <2>3, <3>3 DEF Tied
    <3> QED
      BY <3>1, <3>2, <3>3
  <2> QED
    BY <2>1, <2>3 DEF OneSocketEach
<1> QED
  BY <1>4, <1>5, <1>6 DEF P, Q

-------------------------------------------------------------------------------
(* The holders, and what each would close.                                   *)

LEMMA HoldersAre ==
    /\ Server \in Holders /\ Epoll \in Holders
    /\ \A s \in Sockets : Socket(s) \in Holders
    /\ \A n \in Fds : Client(n) \in Holders /\ Rest(n) \in Holders
    /\ Kind(Server) = "server" /\ Kind(Epoll) = "epoll"
    /\ \A s \in Sockets : Kind(Socket(s)) = "socket" /\ Socket(s)[2] = s
    /\ \A n \in Fds : /\ Kind(Client(n)) = "client" /\ Client(n)[2] = n
                      /\ Kind(Rest(n)) = "rest" /\ Rest(n)[2] = n
    /\ \A h \in Holders :
         \/ h = Server \/ h = Epoll
         \/ \E s \in Sockets : h = Socket(s)
         \/ \E n \in Fds : h = Client(n) \/ h = Rest(n)
BY DEF Holders, Server, Epoll, Socket, Client, Rest, Kind

\* Holders of different kinds, sockets or numbers are different.
LEMMA HoldersDiffer ==
    /\ Server # Epoll
    /\ \A s \in Sockets : Socket(s) # Server /\ Socket(s) # Epoll
    /\ \A n \in Fds : /\ Client(n) # Server /\ Client(n) # Epoll
                      /\ Rest(n) # Server /\ Rest(n) # Epoll
    /\ \A n \in Fds : \A s \in Sockets : Client(n) # Socket(s) /\ Rest(n) # Socket(s)
    /\ \A m, n \in Fds : Client(m) # Rest(n)
    /\ \A m, n \in Fds : Client(m) = Client(n) => m = n
    /\ \A m, n \in Fds : Rest(m) = Rest(n) => m = n
    /\ \A r, s \in Sockets : Socket(r) = Socket(s) => r = s
BY DEF Server, Epoll, Socket, Client, Rest

NumberFacts ==
    /\ Numbers[Server] = IF access THEN fd ELSE -1
    /\ Numbers[Epoll] = IF epFd > 0 THEN epFd ELSE -1
    /\ \A s \in Sockets : Numbers[Socket(s)] = IF valid[s] THEN sockFd[s] ELSE -1
    /\ \A n \in Fds : Numbers[Client(n)] = IF n \in accepted THEN n ELSE -1
    /\ \A n \in Fds : Numbers[Rest(n)] = IF meant[Rest(n)] # 0 THEN n ELSE -1

LEMMA NumberIs == NumberFacts
<1>1. ASSUME NEW h \in Holders PROVE Numbers[h] = Number(h)
  BY DEF Numbers
<1>2. Number(Server) = IF access THEN fd ELSE -1
  BY DEF Number, Server
<1>3. Number(Epoll) = IF epFd > 0 THEN epFd ELSE -1
  BY DEF Number, Epoll
<1>4. ASSUME NEW s \in Sockets PROVE Number(Socket(s)) = IF valid[s] THEN sockFd[s] ELSE -1
  BY DEF Number, Socket
<1>5. ASSUME NEW n \in Fds PROVE Number(Client(n)) = IF n \in accepted THEN n ELSE -1
  BY DEF Number, Client
<1>6. ASSUME NEW n \in Fds PROVE Number(Rest(n)) = IF meant[Rest(n)] # 0 THEN n ELSE -1
  BY DEF Number, Rest
<1> QED
  BY <1>1, <1>2, <1>3, <1>4, <1>5, <1>6, HoldersAre DEF NumberFacts

LEMMA NextNumberIs == NumberFacts'
BY NumberIs, PTL

NumbersAreNumbers == Numbers \in [Holders -> Fds \cup {-1}]

LEMMA NumbersTyped == NumbersTypeOK => NumbersAreNumbers
<1> SUFFICES ASSUME NumbersTypeOK, NEW h \in Holders PROVE Numbers[h] \in Fds \cup {-1}
  BY DEF Numbers, NumbersAreNumbers
<1>1. /\ fd \in Fds \cup {-1} /\ epFd \in Fds \cup {-1}
      /\ \A s \in Sockets : sockFd[s] \in Fds \cup {-1}
  BY DEF NumbersTypeOK
<1>2. h = Server => Numbers[h] \in Fds \cup {-1}
  BY <1>1, NumberIs DEF NumberFacts
<1>3. h = Epoll => Numbers[h] \in Fds \cup {-1}
  BY <1>1, NumberIs DEF NumberFacts
<1>4. ASSUME NEW s \in Sockets, h = Socket(s) PROVE Numbers[h] \in Fds \cup {-1}
  BY <1>1, <1>4, NumberIs DEF NumberFacts
<1>5. ASSUME NEW n \in Fds, h = Client(n) \/ h = Rest(n) PROVE Numbers[h] \in Fds \cup {-1}
  BY <1>5, NumberIs DEF NumberFacts
<1> QED
  BY <1>2, <1>3, <1>4, <1>5, HoldersAre

\* A holder whose variables are left alone keeps its number.
LEMMA NumberStays ==
    /\ access' = access /\ fd' = fd => Numbers'[Server] = Numbers[Server]
    /\ epFd' = epFd => Numbers'[Epoll] = Numbers[Epoll]
    /\ \A s \in Sockets : valid'[s] = valid[s] /\ sockFd'[s] = sockFd[s] =>
         Numbers'[Socket(s)] = Numbers[Socket(s)]
    /\ \A n \in Fds : (n \in accepted' <=> n \in accepted) =>
         Numbers'[Client(n)] = Numbers[Client(n)]
    /\ \A n \in Fds : meant'[Rest(n)] = meant[Rest(n)] =>
         Numbers'[Rest(n)] = Numbers[Rest(n)]
BY NumberIs, NextNumberIs DEF NumberFacts

\* The kernel gives out a number that is free.
LEMMA GivenIsFree ==
    /\ FreeFds = {} => Given = -1
    /\ FreeFds # {} => Given \in Fds /\ table[Given] = 0
<1>1. ASSUME NEW Free \in SUBSET Fds, Free # {}
      PROVE  \E f \in Free : \A g \in Free : f <= g
  <2> DEFINE T == {0 .. f : f \in Free}
  <2>1. IsFiniteSet(Fds) /\ Fds \subseteq Nat /\ \A f \in Free : 0 .. f \in SUBSET Fds
    BY NumbersAssumption
  <2>2. T \subseteq FiniteSubsetsOf(Fds) /\ T # {}
    <3>1. FiniteSubsetsOf(Fds) = SUBSET Fds
      BY <2>1, FS_FiniteSubsetsOfFinite
    <3>2. T \subseteq SUBSET Fds
      BY <2>1
    <3> QED
      BY <1>1, <3>1, <3>2
  <2>3. PICK x \in T : \A y \in T : <<y, x>> \notin StrictSubsetOrdering(Fds)
    BY <2>1, <2>2, FS_StrictSubsetOrderingWellFounded, WFMin
  <2>4. PICK f \in Free : x = 0 .. f
    BY <2>3
  <2>5. ASSUME NEW g \in Free, ~(f <= g) PROVE FALSE
    <3>1. f \in Nat /\ g \in Nat /\ g < f
      BY <2>1, <2>5
    <3>2. f \in 0 .. f /\ f \notin 0 .. g /\ 0 .. g \subseteq 0 .. f
      BY <3>1
    <3>3. 0 .. g \in SUBSET Fds /\ 0 .. f \in SUBSET Fds
      BY <2>1
    <3>4. <<0 .. g, 0 .. f>> \in StrictSubsetOrdering(Fds)
      BY <3>2, <3>3 DEF StrictSubsetOrdering
    <3> QED
      BY <2>3, <2>4, <3>4
  <2> QED
    BY <2>5
<1>2. FreeFds # {} => Lowest(FreeFds) \in FreeFds
  <2>1. FreeFds \in SUBSET Fds
    BY DEF FreeFds
  <2> QED
    BY <1>1, <2>1 DEF Lowest
<1> QED
  BY <1>2 DEF Given, FreeFds

-------------------------------------------------------------------------------
(* The invariant, and the four ways a step can go about it.                  *)

Shared == {"copied", "stale", "kept"}

NumbersInv ==
    /\ NumbersTypeOK
    /\ Sorted(Numbers, meant, table, undercut, files)
    /\ OneNumberEach(table)
    /\ True(Numbers, meant, table, undercut)
    /\ sharing = {} => OneEach(Numbers, meant, undercut)
    /\ (~serverClosed /\ sharing \cap Shared = {}) =>
         OneSocketEach(Numbers, meant, undercut)

LEMMA OpenTypes ==
    ASSUME NumbersTypeOK, NEW n \in Fds, OpenAt(n)
    PROVE  /\ table' = [table EXCEPT ![n] = files + 1] /\ files' = files + 1
           /\ table' \in [Fds -> 0 .. MaxFiles] /\ files' \in 1 .. MaxFiles
           /\ files \in Nat
<1>1. MaxFiles \in Nat
  BY NumbersAssumption
<1> QED
  BY <1>1 DEF OpenAt, NumbersTypeOK

LEMMA CloseTypes ==
    ASSUME NumbersTypeOK, NEW hs, NEW freed, CloseSome(hs, freed)
    PROVE  /\ table' \in [Fds -> 0 .. MaxFiles] /\ meant' \in [Holders -> 0 .. MaxFiles]
           /\ undercut' \subseteq Holders
           /\ files' = files /\ backlog' = backlog /\ listening' = listening
<1> DEFINE gone == {OpenFile(Number(h)) : h \in hs} \ {0}
<1>1. /\ table' = [n \in Fds |-> IF table[n] \in gone THEN 0 ELSE table[n]]
      /\ undercut' = (undercut \cup {h \in Holding : meant[h] \in gone}) \ freed
      /\ meant' = [h \in Holders |-> IF h \in freed THEN 0 ELSE meant[h]]
      /\ files' = files /\ backlog' = backlog /\ listening' = listening
  BY DEF CloseSome
<1> HIDE DEF gone
<1>2. 0 \in 0 .. MaxFiles /\ Holding \subseteq Holders
  BY NumbersAssumption DEF Holding
<1>3. /\ table \in [Fds -> 0 .. MaxFiles] /\ meant \in [Holders -> 0 .. MaxFiles]
      /\ undercut \subseteq Holders
  BY DEF NumbersTypeOK
<1>4. table' \in [Fds -> 0 .. MaxFiles]
  BY <1>1, <1>2, <1>3
<1>5. meant' \in [Holders -> 0 .. MaxFiles]
  BY <1>1, <1>2, <1>3
<1>6. undercut' \subseteq Holders
  BY <1>1, <1>2, <1>3
<1> QED
  BY <1>1, <1>4, <1>5, <1>6

LEMMA NumbersAreFunctions ==
    ASSUME NumbersTypeOK, NumbersTypeOK'
    PROVE  /\ Numbers \in [Holders -> Fds \cup {-1}]
           /\ Numbers' \in [Holders -> Fds \cup {-1}]
<1>1. NumbersTypeOK' => NumbersAreNumbers'
  BY NumbersTyped, PTL
<1> QED
  BY <1>1, NumbersTyped DEF NumbersAreNumbers

\* One holder changes its number and what it stands for.
LEMMA OneChanges ==
    ASSUME NumbersTypeOK, NumbersTypeOK', NEW h \in Holders, NEW n,
           Numbers'[h] = n, \A g \in Holders \ {h} : Numbers'[g] = Numbers[g]
    PROVE  Numbers' = [Numbers EXCEPT ![h] = n]
<1>1. Numbers \in [Holders -> Fds \cup {-1}] /\ Numbers' \in [Holders -> Fds \cup {-1}]
  BY NumbersAreFunctions
<1> QED
  BY <1>1

LEMMA OpenStep ==
    ASSUME NumbersInv, NumbersTypeOK', NEW h \in Holders, NEW n \in Fds,
           table[n] = 0, OpenAt(n),
           Numbers'[h] = n, \A g \in Holders \ {h} : Numbers'[g] = Numbers[g],
           meant' = [meant EXCEPT ![h] = files + 1],
           undercut' \in SUBSET undercut, undercut \ {h} \subseteq undercut',
           sharing' = sharing, serverClosed' = serverClosed
    PROVE  NumbersInv'
<1>1. Numbers' = [Numbers EXCEPT ![h] = n]
  BY OneChanges DEF NumbersInv
<1>2. table' = [table EXCEPT ![n] = files + 1] /\ files' = files + 1
  BY OpenTypes DEF NumbersInv
<1>3. /\ Sorted(Numbers, meant, table, undercut, files)
      /\ OneNumberEach(table) /\ True(Numbers, meant, table, undercut)
  BY DEF NumbersInv
<1>4. /\ Sorted(Numbers', meant', table', undercut', files')
      /\ OneNumberEach(table') /\ True(Numbers', meant', table', undercut')
      /\ OneEach(Numbers, meant, undercut) => OneEach(Numbers', meant', undercut')
      /\ OneSocketEach(Numbers, meant, undercut) =>
           OneSocketEach(Numbers', meant', undercut')
  <2> DEFINE P == [Numbers EXCEPT ![h] = n]
             Q == [meant EXCEPT ![h] = files + 1]
             R == [table EXCEPT ![n] = files + 1]
  <2>1. /\ Sorted(P, Q, R, undercut', files + 1) /\ OneNumberEach(R)
        /\ True(P, Q, R, undercut')
        /\ OneEach(Numbers, meant, undercut) => OneEach(P, Q, undercut')
        /\ OneSocketEach(Numbers, meant, undercut) => OneSocketEach(P, Q, undercut')
    BY <1>3, OpenTrue
  <2>2. Numbers' = P /\ meant' = Q /\ table' = R /\ files' = files + 1
    BY <1>1, <1>2
  <2> HIDE DEF P, Q, R
  <2> QED
    BY <2>1, <2>2
<1> QED
  BY <1>4 DEF NumbersInv

LEMMA NobodyStep ==
    ASSUME NumbersInv, NumbersTypeOK',
           \/ UNCHANGED <<table, files>>
           \/ \E n \in Fds : table[n] = 0 /\ OpenAt(n),
           \A g \in Holders : \/ Numbers'[g] = -1
                              \/ Numbers'[g] = Numbers[g] /\ meant'[g] = meant[g],
           meant' \in [Holders -> 0 .. files'],
           undercut' \in SUBSET undercut, \A g \in undercut \ undercut' : Numbers'[g] = -1,
           sharing' = sharing, serverClosed' = serverClosed
    PROVE  NumbersInv'
<1>1. Numbers' \in [Holders -> Fds \cup {-1}]
  BY NumbersAreFunctions DEF NumbersInv
<1>2. /\ Sorted(Numbers, meant, table, undercut, files)
      /\ OneNumberEach(table) /\ True(Numbers, meant, table, undercut)
  BY DEF NumbersInv
<1>3. files \in Nat /\ table \in [Fds -> 0 .. files]
  BY <1>2 DEF Sorted
<1>4. /\ files' \in Nat /\ files <= files' /\ table' \in [Fds -> 0 .. files']
      /\ OneNumberEach(table') /\ \A m \in Fds : table[m] # 0 => table'[m] = table[m]
  <2>1. CASE UNCHANGED <<table, files>>
    BY <1>2, <1>3, <2>1
  <2>2. ASSUME NEW n \in Fds, table[n] = 0, OpenAt(n)
        PROVE  /\ files' \in Nat /\ files <= files' /\ table' \in [Fds -> 0 .. files']
               /\ OneNumberEach(table') /\ \A m \in Fds : table[m] # 0 => table'[m] = table[m]
    <3>1. table' = [table EXCEPT ![n] = files + 1] /\ files' = files + 1
      BY <2>2, OpenTypes DEF NumbersInv
    <3>2. \A m \in Fds : table'[m] = IF m = n THEN files + 1 ELSE table[m]
      BY <1>3, <3>1
    <3>3. files' \in Nat /\ files <= files' /\ table' \in [Fds -> 0 .. files']
      BY <1>3, <3>1
    <3>4. \A m \in Fds : table[m] # files + 1
      BY <1>3
    <3>5. OneNumberEach(table')
      BY <1>2, <3>2, <3>4 DEF OneNumberEach
    <3> QED
      BY <2>2, <3>2, <3>3, <3>5
  <2> QED
    BY <2>1, <2>2
<1>5. /\ Sorted(Numbers', meant', table', undercut', files')
      /\ True(Numbers', meant', table', undercut')
      /\ OneEach(Numbers, meant, undercut) => OneEach(Numbers', meant', undercut')
      /\ OneSocketEach(Numbers, meant, undercut) =>
           OneSocketEach(Numbers', meant', undercut')
  BY <1>1, <1>2, <1>4, NobodyTrue
<1> QED
  BY <1>4, <1>5 DEF NumbersInv

LEMMA CloseStep ==
    ASSUME NumbersInv, NumbersTypeOK', NEW hs \in SUBSET Holders, NEW freed \in {hs, {}},
           CloseSome(hs, freed),
           \A h \in Holders : \/ Numbers'[h] = -1
                              \/ Numbers'[h] = Numbers[h] /\ h \notin freed,
           sharing \subseteq sharing', freed = hs \/ "kept" \in sharing',
           \/ serverClosed'
           \/ ~serverClosed /\ \A h \in hs : Kind(h) # "client"
    PROVE  NumbersInv'
<1> DEFINE gone == Gone(Numbers, table, hs)
<1>1. Numbers' \in [Holders -> Fds \cup {-1}]
  BY NumbersAreFunctions DEF NumbersInv
<1>2. /\ Sorted(Numbers, meant, table, undercut, files)
      /\ OneNumberEach(table) /\ True(Numbers, meant, table, undercut)
  BY DEF NumbersInv
<1>3. \A h \in Holders : Numbers[h] = Number(h)
  BY DEF Numbers
<1>4. gone = {OpenFile(Number(h)) : h \in hs} \ {0}
  BY <1>3 DEF Gone, OpenFile
<1>5. Holding = {h \in Holders : Numbers[h] \in Fds}
  BY <1>3 DEF Holding
<1> HIDE DEF gone
<1>6. /\ meant' = [h \in Holders |-> IF h \in freed THEN 0 ELSE meant[h]]
      /\ table' = [n \in Fds |-> IF table[n] \in gone THEN 0 ELSE table[n]]
      /\ files' = files
  BY <1>4 DEF CloseSome
<1>7. undercut' = (undercut \cup {h \in Holders : Numbers[h] \in Fds /\ meant[h] \in gone})
                    \ freed
  <2>1. undercut' = (undercut \cup {h \in Holding : meant[h] \in gone}) \ freed
    BY <1>4 DEF CloseSome
  <2> QED
    BY <1>5, <2>1
<1>8. /\ Sorted(Numbers', meant', table', undercut', files)
      /\ OneNumberEach(table') /\ True(Numbers', meant', table', undercut')
      /\ freed = hs /\ OneEach(Numbers, meant, undercut) =>
           OneEach(Numbers', meant', undercut')
      /\ (freed = hs /\ (\A h \in hs : Kind(h) # "client")
            /\ OneSocketEach(Numbers, meant, undercut))
           => OneSocketEach(Numbers', meant', undercut')
  BY <1>1, <1>2, <1>6, <1>7, CloseTrue DEF gone
<1>9. sharing' = {} => OneEach(Numbers', meant', undercut')
  BY <1>8 DEF NumbersInv
<1>10. (~serverClosed' /\ sharing' \cap Shared = {}) =>
         OneSocketEach(Numbers', meant', undercut')
  <2> SUFFICES ASSUME ~serverClosed', sharing' \cap Shared = {}
               PROVE  OneSocketEach(Numbers', meant', undercut')
    OBVIOUS
  <2>1. sharing \cap Shared = {} /\ "kept" \notin sharing'
    BY DEF Shared
  <2>2. OneSocketEach(Numbers, meant, undercut)
    BY <2>1 DEF NumbersInv
  <2> QED
    BY <1>8, <2>1, <2>2
<1> QED
  BY <1>6, <1>8, <1>9, <1>10 DEF NumbersInv

\* "wrapped" is said of the first socket made from a number that is true.
LEMMA TakeStep ==
    ASSUME NumbersInv, NumbersTypeOK', NEW h \in Holders, NEW s \in Sockets,
           NEW n \in Fds, n > 0, Numbers[h] = n, Take(s, n, h),
           \/ sharing' \cap Shared # {}
           \/ /\ sharing' = sharing \cup {"wrapped"} /\ Kind(h) = "client"
              /\ h \notin undercut
              /\ ~ \E r \in Sockets : valid[r] /\ sockFd[r] = n
    PROVE  NumbersInv'
<1> DEFINE k == Socket(s)
<1>1. /\ k \in Holders /\ Kind(k) = "socket"
  BY HoldersAre
<1>2. /\ ~valid[s] /\ sockFd' = [sockFd EXCEPT ![s] = n]
      /\ valid' = [valid EXCEPT ![s] = (n > 0)] /\ meant' = [meant EXCEPT ![k] = meant[h]]
      /\ undercut' = IF h \in undercut THEN undercut \cup {k} ELSE undercut \ {k}
      /\ table' = table /\ files' = files /\ serverClosed' = serverClosed
      /\ access' = access /\ fd' = fd /\ epFd' = epFd /\ accepted' = accepted
  BY DEF Take, tableVars, serverVars
<1>3. /\ sockFd \in [Sockets -> Fds \cup {-1}] /\ valid \in [Sockets -> BOOLEAN]
      /\ meant \in [Holders -> 0 .. MaxFiles]
  BY DEF NumbersInv, NumbersTypeOK
<1>4. Numbers[k] = -1
  BY <1>2, NumberIs DEF NumberFacts
<1>5. Numbers'[k] = n
  <2>1. valid'[s] /\ sockFd'[s] = n
    BY <1>2, <1>3
  <2> QED
    BY <2>1, NextNumberIs DEF NumberFacts
<1>6. ASSUME NEW g \in Holders, g # k PROVE Numbers'[g] = Numbers[g]
  <2>1. ASSUME NEW r \in Sockets, g = Socket(r) PROVE Numbers'[g] = Numbers[g]
    <3>1. r # s
      BY <1>6, <2>1
    <3>2. valid'[r] = valid[r] /\ sockFd'[r] = sockFd[r]
      BY <1>2, <1>3, <3>1
    <3> QED
      BY <2>1, <3>2, NumberStays
  <2>2. ASSUME NEW m \in Fds, g = Rest(m) PROVE Numbers'[g] = Numbers[g]
    <3>1. Rest(m) # k /\ Rest(m) \in Holders
      BY HoldersAre, HoldersDiffer
    <3>2. meant'[Rest(m)] = meant[Rest(m)]
      BY <1>2, <1>3, <3>1
    <3> QED
      BY <2>2, <3>2, NumberStays
  <2>3. ASSUME NEW m \in Fds, g = Client(m) PROVE Numbers'[g] = Numbers[g]
    BY <1>2, <2>3, NumberStays
  <2>4. g = Server \/ g = Epoll => Numbers'[g] = Numbers[g]
    BY <1>2, NumberStays
  <2> QED
    BY <2>1, <2>2, <2>3, <2>4, HoldersAre
<1> HIDE DEF k
<1>7. Numbers' = [Numbers EXCEPT ![k] = Numbers[h]]
  BY <1>1, <1>5, <1>6, OneChanges DEF NumbersInv
<1>8. /\ Sorted(Numbers, meant, table, undercut, files)
      /\ OneNumberEach(table) /\ True(Numbers, meant, table, undercut)
  BY DEF NumbersInv
<1>9. /\ Sorted(Numbers', meant', table', undercut', files')
      /\ True(Numbers', meant', table', undercut')
      /\ (/\ OneSocketEach(Numbers, meant, undercut) /\ h \notin undercut
          /\ Kind(h) = "client" /\ Kind(k) = "socket"
          /\ \A g \in Holders : Kind(g) = "socket" => Numbers[g] # Numbers[h])
           => OneSocketEach(Numbers', meant', undercut')
  BY <1>1, <1>2, <1>4, <1>7, <1>8, TakeTrue
<1>10. (~serverClosed' /\ sharing' \cap Shared = {}) =>
         OneSocketEach(Numbers', meant', undercut')
  <2> SUFFICES ASSUME ~serverClosed', sharing' \cap Shared = {}
               PROVE  OneSocketEach(Numbers', meant', undercut')
    OBVIOUS
  <2>1. /\ sharing' = sharing \cup {"wrapped"} /\ Kind(h) = "client" /\ h \notin undercut
        /\ ~ \E r \in Sockets : valid[r] /\ sockFd[r] = n
    OBVIOUS
  <2>2. OneSocketEach(Numbers, meant, undercut)
    <3>1. sharing \cap Shared = {} /\ ~serverClosed
      BY <1>2, <2>1
    <3> QED
      BY <3>1 DEF NumbersInv
  <2>3. ASSUME NEW g \in Holders, Kind(g) = "socket" PROVE Numbers[g] # Numbers[h]
    <3>1. PICK r \in Sockets : g = Socket(r)
      BY <2>3, HoldersAre
    <3>2. Numbers[g] = IF valid[r] THEN sockFd[r] ELSE -1
      BY <3>1, NumberIs DEF NumberFacts
    <3>3. n # -1
      BY NumbersAssumption
    <3> QED
      BY <2>1, <3>2, <3>3
  <2> QED
    BY <1>1, <1>9, <2>1, <2>2, <2>3
<1>11. sharing' # {}
  OBVIOUS
<1> QED
  BY <1>2, <1>8, <1>9, <1>10, <1>11 DEF NumbersInv

-------------------------------------------------------------------------------
(* The steps.                                                                *)

\* Only holder h's variables change.
LEMMA OthersStay ==
    ASSUME NEW h \in Holders,
           h = Server \/ (access' = access /\ fd' = fd),
           h = Epoll \/ epFd' = epFd,
           \A s \in Sockets : h = Socket(s) \/ (valid'[s] = valid[s] /\ sockFd'[s] = sockFd[s]),
           \A n \in Fds : h = Client(n) \/ (n \in accepted' <=> n \in accepted),
           \A g \in Holders \ {h} : meant'[g] = meant[g]
    PROVE  \A g \in Holders \ {h} : Numbers'[g] = Numbers[g]
<1> SUFFICES ASSUME NEW g \in Holders, g # h PROVE Numbers'[g] = Numbers[g]
  OBVIOUS
<1>1. g = Server => Numbers'[g] = Numbers[g]
  BY NumberStays
<1>2. g = Epoll => Numbers'[g] = Numbers[g]
  BY NumberStays
<1>3. ASSUME NEW s \in Sockets, g = Socket(s) PROVE Numbers'[g] = Numbers[g]
  BY <1>3, NumberStays
<1>4. ASSUME NEW n \in Fds, g = Client(n) PROVE Numbers'[g] = Numbers[g]
  BY <1>4, NumberStays
<1>5. ASSUME NEW n \in Fds, g = Rest(n) PROVE Numbers'[g] = Numbers[g]
  BY <1>5, NumberStays
<1> QED
  BY <1>1, <1>2, <1>3, <1>4, <1>5, HoldersAre

LEMMA QuietStep ==
    ASSUME NumbersInv, NumbersTypeOK',
           UNCHANGED <<table, files, fd, access, accepted, socketVars, history>>
    PROVE  NumbersInv'
<1>1. Numbers' = Numbers
  BY DEF Numbers, Number, socketVars, history
<1> QED
  BY <1>1 DEF NumbersInv, socketVars, history

LEMMA CloseOne ==
    ASSUME NumbersInv, NumbersTypeOK', NEW h \in Holders, CloseAll({h}),
           Numbers'[h] = -1, \A g \in Holders \ {h} : Numbers'[g] = Numbers[g],
           sharing' = sharing,
           serverClosed' \/ (~serverClosed /\ Kind(h) # "client")
    PROVE  NumbersInv'
<1> DEFINE hs == {h}
<1>1. hs \in SUBSET Holders /\ hs \in {hs, {}}
  OBVIOUS
<1>2. CloseSome(hs, hs)
  BY DEF CloseAll
<1>3. \A g \in Holders : \/ Numbers'[g] = -1
                         \/ Numbers'[g] = Numbers[g] /\ g \notin hs
  OBVIOUS
<1>4. serverClosed' \/ (~serverClosed /\ \A g \in hs : Kind(g) # "client")
  OBVIOUS
<1> HIDE DEF hs
<1> QED
  BY <1>1, <1>2, <1>3, <1>4, CloseStep

LEMMA MeantOfOthers ==
    ASSUME NumbersTypeOK, NEW h \in Holders, CloseAll({h})
    PROVE  meant'[h] = 0 /\ \A g \in Holders \ {h} : meant'[g] = meant[g]
BY DEF CloseAll, CloseSome

LEMMA InitNumbers == NumbersInit => NumbersInv
<1> SUFFICES ASSUME NumbersInit PROVE NumbersInv
  OBVIOUS
<1>1. PICK zero \in BOOLEAN :
        /\ table = [n \in Fds |-> IF n = 0 /\ ~zero THEN 1 ELSE 0]
        /\ meant = [h \in Holders |-> IF h = Rest(0) /\ ~zero THEN 1 ELSE 0]
  BY DEF NumbersInit
<1>2. /\ files = 1 /\ backlog = FALSE /\ listening = 0
      /\ fd = 0 /\ access = FALSE /\ saveAll = FALSE /\ accepted = {}
      /\ sockFd = [s \in Sockets |-> -1] /\ valid = [s \in Sockets |-> FALSE]
      /\ epFd = -1 /\ undercut = {} /\ sharing = {} /\ serverClosed = FALSE
  BY DEF NumbersInit
<1>3. 0 \in Fds /\ Fds \subseteq Nat /\ 0 \in 0 .. MaxFiles /\ 1 \in 1 .. MaxFiles
      /\ 1 \in 0 .. MaxFiles /\ 0 \in 0 .. 1 /\ 1 \in 0 .. 1 /\ -1 \notin Fds
  BY NumbersAssumption
<1>4. table \in [Fds -> 0 .. MaxFiles] /\ meant \in [Holders -> 0 .. MaxFiles]
      /\ table \in [Fds -> 0 .. 1] /\ meant \in [Holders -> 0 .. 1]
  BY <1>1, <1>3
<1>5. NumbersTypeOK
  BY <1>2, <1>3, <1>4 DEF NumbersTypeOK
<1>6. Sorted(Numbers, meant, table, undercut, files)
  BY <1>2, <1>4, <1>5, NumbersTyped DEF Sorted, NumbersAreNumbers
<1>7. OneNumberEach(table)
  BY <1>1 DEF OneNumberEach
\* Only the rest of the program has a number, 0, or nobody has.
<1>8. ASSUME NEW h \in Holders, Numbers[h] \in Fds
      PROVE  h = Rest(0) /\ Numbers[h] = 0 /\ meant[h] = 1 /\ table[0] = 1
  <2>1. h # Server /\ h # Epoll
    BY <1>2, <1>3, <1>8, NumberIs DEF NumberFacts
  <2>2. ASSUME NEW s \in Sockets, h = Socket(s) PROVE FALSE
    BY <1>2, <1>3, <1>8, <2>2, NumberIs DEF NumberFacts
  <2>3. ASSUME NEW n \in Fds, h = Client(n) PROVE FALSE
    BY <1>2, <1>3, <1>8, <2>3, NumberIs DEF NumberFacts
  <2>4. PICK n \in Fds : h = Rest(n)
    BY <2>1, <2>2, <2>3, HoldersAre
  <2>5. meant[h] # 0 /\ Numbers[h] = n
    BY <1>3, <1>8, <2>4, NumberIs DEF NumberFacts
  <2>6. h = Rest(0) /\ ~zero /\ meant[h] = 1
    BY <1>1, <2>5
  <2>7. n = 0
    BY <1>3, <2>4, <2>6, HoldersDiffer
  <2>8. table[0] = 1
    BY <1>1, <1>3, <2>6
  <2> QED
    BY <2>5, <2>6, <2>7, <2>8
<1>9. True(Numbers, meant, table, undercut)
  BY <1>8 DEF True
<1>10. OneEach(Numbers, meant, undercut) /\ OneSocketEach(Numbers, meant, undercut)
  BY <1>2, <1>8 DEF OneEach, OneSocketEach
<1> QED
  BY <1>5, <1>6, <1>7, <1>9, <1>10 DEF NumbersInv

LEMMA QuietNumbers ==
    ASSUME NumbersInv,
           Connect \/ Listen \/ (\E b \in BOOLEAN : AutoSaveAcceptedFD(b))
             \/ UNCHANGED numberVars
    PROVE  NumbersInv'
<1>1. NumbersTypeOK
  BY DEF NumbersInv
<1>2. CASE Connect
  <2>1. NumbersTypeOK'
    BY <1>1, <1>2 DEF Connect, NumbersTypeOK, serverVars, socketVars, history
  <2> QED
    BY <1>2, <2>1, QuietStep DEF Connect, serverVars
<1>3. CASE Listen
  <2>1. listening' \in 0 .. MaxFiles
    <3>1. fd \in Fds /\ listening' = table[fd]
      BY <1>3 DEF Listen, OpenFile
    <3> QED
      BY <1>1, <3>1 DEF NumbersTypeOK
  <2>2. backlog' \in BOOLEAN
    BY <1>3, Zenon DEF Listen
  <2>3. NumbersTypeOK'
    BY <1>1, <1>3, <2>1, <2>2 DEF Listen, NumbersTypeOK, serverVars, socketVars, history
  <2> QED
    BY <1>3, <2>3, QuietStep DEF Listen, serverVars
<1>4. ASSUME NEW b \in BOOLEAN, AutoSaveAcceptedFD(b) PROVE NumbersInv'
  <2>1. NumbersTypeOK'
    BY <1>1, <1>4 DEF AutoSaveAcceptedFD, NumbersTypeOK, tableVars, socketVars, history
  <2> QED
    BY <1>4, <2>1, QuietStep DEF AutoSaveAcceptedFD, tableVars
<1>5. CASE UNCHANGED numberVars
  <2>1. NumbersTypeOK'
    BY <1>1, <1>5 DEF numberVars, NumbersTypeOK, tableVars, serverVars, socketVars, history
  <2> QED
    BY <1>5, <2>1, QuietStep DEF numberVars, tableVars, serverVars
<1> QED
  BY <1>2, <1>3, <1>4, <1>5

\* socket() opens a file under a free number, or nothing.
LEMMA IfFree ==
    ASSUME NumbersTypeOK, OpenIfFree
    PROVE  /\ \/ Given = -1 /\ UNCHANGED <<table, files>>
              \/ Given \in Fds /\ table[Given] = 0 /\ OpenAt(Given)
           /\ table' \in [Fds -> 0 .. MaxFiles] /\ files' \in 1 .. MaxFiles
           /\ files <= files'
<1>1. -1 \notin Fds
  BY NumbersAssumption
<1>2. CASE FreeFds = {}
  <2>1. Given = -1 /\ UNCHANGED <<table, files>>
    BY <1>2, GivenIsFree DEF OpenIfFree
  <2> QED
    BY <2>1 DEF NumbersTypeOK
<1>3. CASE FreeFds # {}
  <2>1. Given \in Fds /\ table[Given] = 0 /\ OpenAt(Given)
    BY <1>1, <1>3, GivenIsFree DEF OpenIfFree
  <2>2. /\ table' \in [Fds -> 0 .. MaxFiles] /\ files' \in 1 .. MaxFiles
        /\ files' = files + 1 /\ files \in Nat
    BY <2>1, OpenTypes
  <2> QED
    BY <2>1, <2>2
<1> QED
  BY <1>2, <1>3

\* A holder h is left without a number, and all others are left alone.
LEMMA NobodyAlone ==
    ASSUME NumbersInv, NumbersTypeOK', NEW h \in Holders,
           \/ UNCHANGED <<table, files>>
           \/ \E n \in Fds : table[n] = 0 /\ OpenAt(n),
           NEW f \in 0 .. files', meant' = [meant EXCEPT ![h] = f], files <= files',
           Numbers'[h] = -1, \A g \in Holders \ {h} : Numbers'[g] = Numbers[g],
           undercut' \in {undercut, undercut \ {h}},
           sharing' = sharing, serverClosed' = serverClosed
    PROVE  NumbersInv'
<1>1. /\ files \in Nat /\ files' \in Nat /\ meant \in [Holders -> 0 .. files]
  BY DEF NumbersInv, NumbersTypeOK, Sorted
<1>2. meant' \in [Holders -> 0 .. files']
  BY <1>1
<1>3. \A g \in Holders : \/ Numbers'[g] = -1
                         \/ Numbers'[g] = Numbers[g] /\ meant'[g] = meant[g]
  BY <1>1
<1>4. undercut' \in SUBSET undercut /\ \A g \in undercut \ undercut' : Numbers'[g] = -1
  OBVIOUS
<1> QED
  BY <1>2, <1>3, <1>4, NobodyStep

LEMMA OpenOtherNumbers ==
    ASSUME NumbersInv, OpenOther PROVE NumbersInv'
<1> DEFINE n == Given
           h == Rest(Given)
<1>1. NumbersTypeOK /\ meant \in [Holders -> 0 .. MaxFiles]
  BY DEF NumbersInv, NumbersTypeOK
<1>2. n \in Fds /\ table[n] = 0 /\ OpenAt(n)
  BY GivenIsFree DEF OpenOther
<1>3. /\ h \in Holders /\ h # Server /\ h # Epoll
      /\ \A s \in Sockets : h # Socket(s)
      /\ \A m \in Fds : h # Client(m)
  BY <1>2, HoldersAre, HoldersDiffer
<1>4. /\ meant' = [meant EXCEPT ![h] = files + 1] /\ undercut' = undercut \ {h}
      /\ sharing' = sharing /\ serverClosed' = serverClosed
      /\ backlog' = backlog /\ listening' = listening
      /\ fd' = fd /\ access' = access /\ saveAll' = saveAll /\ accepted' = accepted
      /\ sockFd' = sockFd /\ valid' = valid /\ epFd' = epFd
  BY DEF OpenOther, serverVars, socketVars
<1>5. /\ table' \in [Fds -> 0 .. MaxFiles] /\ files' \in 1 .. MaxFiles
      /\ files' = files + 1
  BY <1>1, <1>2, OpenTypes
<1> HIDE DEF h, n
<1>6. meant' \in [Holders -> 0 .. MaxFiles]
  <2>1. files + 1 \in 0 .. MaxFiles
    BY <1>5
  <2>2. meant' = [meant EXCEPT ![h] = files + 1]
    BY <1>4
  <2> QED
    BY <1>1, <2>1, <2>2
<1>7. NumbersTypeOK'
  BY <1>1, <1>4, <1>5, <1>6 DEF NumbersTypeOK
<1>8. meant'[h] = files + 1 /\ \A g \in Holders \ {h} : meant'[g] = meant[g]
  BY <1>1, <1>3, <1>4
<1>9. \A g \in Holders \ {h} : Numbers'[g] = Numbers[g]
  BY <1>3, <1>4, <1>8, OthersStay
<1>10. Numbers'[h] = n
  <2>1. files + 1 # 0
    BY <1>1 DEF NumbersTypeOK
  <2>2. meant'[Rest(n)] # 0
    BY <1>8, <2>1 DEF h, n
  <2> QED
    BY <1>2, <2>2, NextNumberIs DEF NumberFacts, h, n
<1> QED
  BY <1>2, <1>3, <1>4, <1>7, <1>9, <1>10, OpenStep

LEMMA CloseOtherNumbers ==
    ASSUME NumbersInv, NEW n \in Fds, CloseOther(n) PROVE NumbersInv'
<1> DEFINE h == Rest(n)
<1>1. NumbersTypeOK
  BY DEF NumbersInv
<1>2. /\ h \in Holders /\ h # Server /\ h # Epoll /\ Kind(h) # "client"
      /\ \A s \in Sockets : h # Socket(s)
      /\ \A m \in Fds : h # Client(m)
  BY HoldersAre, HoldersDiffer
<1>3. /\ CloseAll({h}) /\ sharing' = sharing /\ serverClosed' = serverClosed
      /\ fd' = fd /\ access' = access /\ saveAll' = saveAll /\ accepted' = accepted
      /\ sockFd' = sockFd /\ valid' = valid /\ epFd' = epFd
  BY DEF CloseOther, serverVars, socketVars
<1>4. NumbersTypeOK'
  BY <1>1, <1>3, CloseTypes DEF CloseAll, NumbersTypeOK
<1>5. meant'[h] = 0 /\ \A g \in Holders \ {h} : meant'[g] = meant[g]
  BY <1>1, <1>2, <1>3, MeantOfOthers
<1>6. Numbers'[h] = -1
  BY <1>5, NextNumberIs DEF NumberFacts
<1> HIDE DEF h
<1>7. \A g \in Holders \ {h} : Numbers'[g] = Numbers[g]
  BY <1>2, <1>3, <1>5, OthersStay
<1>8. serverClosed' \/ ~serverClosed
  BY <1>3
<1> QED
  BY <1>2, <1>3, <1>4, <1>6, <1>7, <1>8, CloseOne

LEMMA ServerInitNumbers ==
    ASSUME NumbersInv, ServerInit PROVE NumbersInv'
<1>1. NumbersTypeOK /\ meant \in [Holders -> 0 .. MaxFiles] /\ 0 \in Fds /\ -1 \notin Fds
  BY NumbersAssumption DEF NumbersInv, NumbersTypeOK
<1>2. /\ fd' = Given /\ access' = (Given # 0) /\ undercut' = undercut \ {Server}
      /\ meant' = [meant EXCEPT ![Server] = IF Given = -1 THEN 0 ELSE files']
      /\ sharing' = sharing /\ serverClosed' = serverClosed
      /\ backlog' = backlog /\ listening' = listening
      /\ saveAll' = saveAll /\ accepted' = accepted
      /\ sockFd' = sockFd /\ valid' = valid /\ epFd' = epFd
  BY DEF ServerInit, socketVars
<1>3. /\ \/ Given = -1 /\ UNCHANGED <<table, files>>
         \/ Given \in Fds /\ table[Given] = 0 /\ OpenAt(Given)
      /\ table' \in [Fds -> 0 .. MaxFiles] /\ files' \in 1 .. MaxFiles
      /\ files <= files'
  BY <1>1, IfFree DEF ServerInit
<1>4. Server \in Holders /\ \A s \in Sockets : Server # Socket(s)
      /\ Server # Epoll /\ \A n \in Fds : Server # Client(n)
  BY HoldersAre, HoldersDiffer
<1> DEFINE f == IF Given = -1 THEN 0 ELSE files'
<1>5. f \in 0 .. files' /\ f \in 0 .. MaxFiles
  <2>1. MaxFiles \in Nat /\ files' \in 1 .. MaxFiles
    BY <1>3, NumbersAssumption
  <2> QED
    BY <2>1
<1>6. meant' = [meant EXCEPT ![Server] = f]
  BY <1>2
<1>7. Given = -1 \/ f = files'
  OBVIOUS
<1> HIDE DEF f
<1>8. NumbersTypeOK'
  <2>1. meant' \in [Holders -> 0 .. MaxFiles]
    BY <1>1, <1>5, <1>6
  <2>2. fd' \in Fds \cup {-1} /\ access' \in BOOLEAN /\ undercut' \subseteq Holders
    BY <1>1, <1>2, <1>3 DEF NumbersTypeOK
  <2> QED
    BY <1>1, <1>2, <1>3, <2>1, <2>2 DEF NumbersTypeOK
<1>9. \A g \in Holders \ {Server} : Numbers'[g] = Numbers[g]
  <2>1. \A g \in Holders \ {Server} : meant'[g] = meant[g]
    BY <1>1, <1>6
  <2> QED
    BY <1>2, <1>4, <2>1, OthersStay
<1>10. Numbers'[Server] = IF Given # 0 THEN Given ELSE -1
  BY <1>2, NextNumberIs DEF NumberFacts
<1>11. CASE Given \in {0, -1}
  <2>1. Numbers'[Server] = -1
    BY <1>10, <1>11
  <2>2. \/ UNCHANGED <<table, files>>
        \/ \E n \in Fds : table[n] = 0 /\ OpenAt(n)
    BY <1>3
  <2>3. undercut' \in {undercut, undercut \ {Server}}
    BY <1>2
  <2>4. sharing' = sharing /\ serverClosed' = serverClosed /\ files <= files'
    BY <1>2, <1>3
  <2> QED
    BY <1>4, <1>5, <1>6, <1>8, <1>9, <2>1, <2>2, <2>3, <2>4, NobodyAlone
<1>12. CASE Given \notin {0, -1}
  <2>1. Given \in Fds /\ table[Given] = 0 /\ OpenAt(Given) /\ Numbers'[Server] = Given
    BY <1>3, <1>10, <1>12
  <2>2. meant' = [meant EXCEPT ![Server] = files + 1]
    <3>1. files' = files + 1
      BY <1>1, <2>1, OpenTypes
    <3> QED
      BY <1>6, <1>7, <1>12, <3>1
  <2> QED
    BY <1>2, <1>4, <1>8, <1>9, <2>1, <2>2, OpenStep
<1> QED
  BY <1>11, <1>12


LEMMA AcceptNumbers ==
    ASSUME NumbersInv, Accept PROVE NumbersInv'
<1> DEFINE n == Given
           h == Client(Given)
<1>1. NumbersTypeOK /\ meant \in [Holders -> 0 .. MaxFiles] /\ accepted \subseteq Fds \ {0}
  BY DEF NumbersInv, NumbersTypeOK
<1>2. n \in Fds /\ table[n] = 0 /\ OpenAt(n)
  BY GivenIsFree DEF Accept
<1>3. /\ table' \in [Fds -> 0 .. MaxFiles] /\ files' \in 1 .. MaxFiles
      /\ files' = files + 1
  BY <1>1, <1>2, OpenTypes
<1>4. /\ backlog' = FALSE /\ listening' = listening
      /\ sharing' = sharing /\ serverClosed' = serverClosed
      /\ fd' = fd /\ access' = access /\ saveAll' = saveAll
      /\ sockFd' = sockFd /\ valid' = valid /\ epFd' = epFd
  BY DEF Accept, socketVars
<1>5. ASSUME n > 0 PROVE NumbersInv'
  <2>1. /\ accepted' = accepted \cup {n} /\ meant' = [meant EXCEPT ![h] = files']
        /\ undercut' = undercut \ {h}
    BY <1>5 DEF Accept
  <2>2. /\ h \in Holders /\ h # Server /\ h # Epoll
        /\ \A s \in Sockets : h # Socket(s)
        /\ \A m \in Fds : h = Client(m) => m = n
    BY <1>2, HoldersAre, HoldersDiffer
  <2>3. n # 0
    BY <1>5
  <2> HIDE DEF h
  <2>4. Numbers'[h] = n
    <3>1. n \in accepted'
      BY <2>1
    <3> QED
      BY <1>2, <3>1, NextNumberIs DEF NumberFacts, h
  <2> HIDE DEF n
  <2>5. meant' \in [Holders -> 0 .. MaxFiles]
    <3>1. files' \in 0 .. MaxFiles
      BY <1>3
    <3> QED
      BY <1>1, <2>1, <3>1
  <2>6. NumbersTypeOK'
    <3>1. accepted' \subseteq Fds \ {0} /\ undercut' \subseteq Holders
      BY <1>1, <1>2, <2>1, <2>3 DEF NumbersTypeOK
    <3> QED
      BY <1>1, <1>3, <1>4, <2>5, <3>1 DEF NumbersTypeOK
  <2>7. \A g \in Holders \ {h} : meant'[g] = meant[g]
    BY <1>1, <2>1
  <2>8. \A m \in Fds : h = Client(m) \/ (m \in accepted' <=> m \in accepted)
    <3>1. h = Client(n)
      BY DEF h, n
    <3> QED
      BY <2>1, <3>1
  <2>9. \A g \in Holders \ {h} : Numbers'[g] = Numbers[g]
    BY <1>4, <2>2, <2>7, <2>8, OthersStay
  <2>10. meant' = [meant EXCEPT ![h] = files + 1]
    BY <1>3, <2>1
  <2> QED
    BY <1>2, <1>4, <2>1, <2>2, <2>4, <2>6, <2>9, <2>10, OpenStep
<1>6. ASSUME ~(n > 0) PROVE NumbersInv'
  <2>1. accepted' = accepted /\ meant' = meant /\ undercut' = undercut
    BY <1>6 DEF Accept
  <2>2. NumbersTypeOK'
    BY <1>1, <1>3, <1>4, <2>1 DEF NumbersTypeOK
  <2>3. Numbers' = Numbers
    BY <1>4, <2>1 DEF Numbers, Number
  <2>4. meant' \in [Holders -> 0 .. files']
    <3>1. meant \in [Holders -> 0 .. files] /\ files \in Nat /\ files' = files + 1
      BY <1>3 DEF NumbersInv, Sorted
    <3> QED
      BY <2>1, <3>1
  <2> QED
    BY <1>2, <1>4, <2>1, <2>2, <2>3, <2>4, NobodyStep
<1> QED
  BY <1>5, <1>6

LEMMA CloseClientNumbers ==
    ASSUME NumbersInv, NEW n \in Fds, CloseClient(n) PROVE NumbersInv'
<1> DEFINE h == Client(n)
<1>1. NumbersTypeOK
  BY DEF NumbersInv
<1>2. /\ h \in Holders /\ h # Server /\ h # Epoll
      /\ \A s \in Sockets : h # Socket(s)
  BY HoldersAre, HoldersDiffer
<1>3. /\ CloseAll({h}) /\ sharing' = sharing /\ serverClosed' = TRUE
      /\ accepted' = accepted \ {n}
      /\ fd' = fd /\ access' = access /\ saveAll' = saveAll
      /\ sockFd' = sockFd /\ valid' = valid /\ epFd' = epFd
  BY DEF CloseClient, socketVars
<1>4. NumbersTypeOK'
  <2>1. accepted' \subseteq Fds \ {0}
    BY <1>1, <1>3 DEF NumbersTypeOK
  <2> QED
    BY <1>1, <1>3, <2>1, CloseTypes DEF CloseAll, NumbersTypeOK
<1>5. \A g \in Holders \ {h} : meant'[g] = meant[g]
  BY <1>1, <1>2, <1>3, MeantOfOthers
<1>6. Numbers'[h] = -1
  BY <1>3, NextNumberIs DEF NumberFacts
<1>7. \A m \in Fds : h = Client(m) \/ (m \in accepted' <=> m \in accepted)
  BY <1>3
<1> HIDE DEF h
<1>8. \A g \in Holders \ {h} : Numbers'[g] = Numbers[g]
  BY <1>2, <1>3, <1>5, <1>7, OthersStay
<1> QED
  BY <1>2, <1>3, <1>4, <1>6, <1>8, CloseOne

LEMMA ShutdownNumbers ==
    ASSUME NumbersInv, Shutdown PROVE NumbersInv'
<1> DEFINE closed == IF saveAll THEN Clients ELSE {}
           hs == {Server} \cup closed
<1>1. NumbersTypeOK
  BY DEF NumbersInv
<1>2. /\ CloseSome(hs, hs) /\ access' = FALSE /\ accepted' = {}
      /\ serverClosed' = (serverClosed \/ closed # {})
      /\ fd' = fd /\ saveAll' = saveAll /\ sharing' = sharing
      /\ sockFd' = sockFd /\ valid' = valid /\ epFd' = epFd
  BY DEF Shutdown, CloseAll, socketVars
<1>3. /\ closed \subseteq Holders /\ \A h \in closed : Kind(h) = "client"
      /\ hs \in SUBSET Holders /\ hs \in {hs, {}}
  BY HoldersAre DEF Clients, Holding, Kind
<1>4. closed # {} \/ hs = {Server}
  OBVIOUS
<1>5. Kind(Server) # "client"
  BY HoldersAre
<1>6. \A h \in hs : h = Server \/ h \in closed
  OBVIOUS
<1> HIDE DEF hs, closed
<1>7. NumbersTypeOK'
  <2>1. /\ table' \in [Fds -> 0 .. MaxFiles] /\ meant' \in [Holders -> 0 .. MaxFiles]
        /\ undercut' \subseteq Holders
        /\ files' = files /\ backlog' = backlog /\ listening' = listening
    BY <1>1, <1>2, CloseTypes
  <2>2. serverClosed' \in BOOLEAN
    BY <1>2, Zenon
  <2> QED
    BY <1>1, <1>2, <2>1, <2>2 DEF NumbersTypeOK
<1>8. \A h \in Holders \ hs : meant'[h] = meant[h]
  BY <1>2 DEF CloseSome
<1>9. ASSUME NEW h \in Holders
      PROVE  \/ Numbers'[h] = -1
             \/ Numbers'[h] = Numbers[h] /\ h \notin hs
  <2>1. CASE h = Server
    BY <1>2, <2>1, NextNumberIs DEF NumberFacts
  <2>2. ASSUME NEW n \in Fds, h = Client(n) PROVE Numbers'[h] = -1
    BY <1>2, <2>2, NextNumberIs DEF NumberFacts
  <2>3. ASSUME h # Server, Kind(h) # "client" PROVE h \notin hs /\ meant'[h] = meant[h]
    BY <1>3, <1>6, <1>8, <2>3
  <2>4. ASSUME NEW s \in Sockets, h = Socket(s)
        PROVE  Numbers'[h] = Numbers[h] /\ h \notin hs
    <3>1. h # Server /\ Kind(h) # "client"
      BY <2>4, HoldersAre, HoldersDiffer
    <3> QED
      BY <1>2, <2>3, <2>4, <3>1, NumberStays
  <2>5. ASSUME h = Epoll PROVE Numbers'[h] = Numbers[h] /\ h \notin hs
    <3>1. h # Server /\ Kind(h) # "client"
      BY <2>5, HoldersAre, HoldersDiffer
    <3> QED
      BY <1>2, <2>3, <2>5, <3>1, NumberStays
  <2>6. ASSUME NEW n \in Fds, h = Rest(n)
        PROVE  Numbers'[h] = Numbers[h] /\ h \notin hs
    <3>1. h # Server /\ Kind(h) # "client"
      BY <2>6, HoldersAre, HoldersDiffer
    <3> QED
      BY <1>2, <2>3, <2>6, <3>1, NumberStays
  <2> QED
    BY <2>1, <2>2, <2>4, <2>5, <2>6, HoldersAre
<1>10. \/ serverClosed'
       \/ ~serverClosed /\ \A h \in hs : Kind(h) # "client"
  <2>1. CASE closed # {}
    BY <1>2, <2>1
  <2>2. CASE closed = {}
    BY <1>2, <1>4, <1>5, <2>2
  <2> QED
    BY <2>1, <2>2
<1> QED
  BY <1>2, <1>3, <1>7, <1>9, <1>10, CloseStep

LEMMA TakeTypes ==
    ASSUME NumbersTypeOK, NEW s \in Sockets, NEW n \in Fds, n > 0, NEW h \in Holders,
           Take(s, n, h), sharing' \subseteq {"wrapped", "copied", "stale", "kept"}
    PROVE  NumbersTypeOK'
<1> DEFINE k == Socket(s)
<1>1. /\ sockFd' = [sockFd EXCEPT ![s] = n] /\ valid' = [valid EXCEPT ![s] = (n > 0)]
      /\ meant' = [meant EXCEPT ![k] = meant[h]]
      /\ undercut' = IF h \in undercut THEN undercut \cup {k} ELSE undercut \ {k}
      /\ UNCHANGED <<tableVars, serverVars, epFd, serverClosed>>
  BY DEF Take
<1>2. /\ sockFd \in [Sockets -> Fds \cup {-1}] /\ valid \in [Sockets -> BOOLEAN]
      /\ \A r \in Sockets : valid[r] => sockFd[r] > 0
      /\ meant \in [Holders -> 0 .. MaxFiles] /\ undercut \subseteq Holders
  BY DEF NumbersTypeOK
<1>3. k \in Holders
  BY HoldersAre
<1> HIDE DEF k
<1>4. sockFd' \in [Sockets -> Fds \cup {-1}] /\ valid' \in [Sockets -> BOOLEAN]
  BY <1>1, <1>2
<1>5. \A r \in Sockets : valid'[r] => sockFd'[r] > 0
  BY <1>1, <1>2
<1>6. meant' \in [Holders -> 0 .. MaxFiles] /\ undercut' \subseteq Holders
  BY <1>1, <1>2, <1>3
<1> QED
  BY <1>1, <1>4, <1>5, <1>6 DEF NumbersTypeOK, tableVars, serverVars

LEMMA WrapNumbers ==
    ASSUME NumbersInv, NEW s \in Sockets, NEW n \in Fds, Wrap(s, n) PROVE NumbersInv'
<1> DEFINE h == Client(n)
           first == ~ \E r \in Sockets : valid[r] /\ sockFd[r] = n
<1>1. NumbersTypeOK
  BY DEF NumbersInv
<1>2. /\ n \in accepted /\ Take(s, n, h)
      /\ sharing' = sharing \cup
           {IF h \in undercut THEN "stale" ELSE IF ~first THEN "copied" ELSE "wrapped"}
  BY DEF Wrap
<1>3. n > 0
  BY <1>1, <1>2, NumbersAssumption DEF NumbersTypeOK
<1>4. h \in Holders /\ Kind(h) = "client" /\ Numbers[h] = n
  BY <1>2, HoldersAre, NumberIs DEF NumberFacts
<1> HIDE DEF h
<1>5. \/ "stale" \in sharing' \/ "copied" \in sharing'
      \/ sharing' = sharing \cup {"wrapped"} /\ h \notin undercut /\ first
  BY <1>2
<1>6. sharing' \subseteq {"wrapped", "copied", "stale", "kept"}
  <2>1. sharing \subseteq {"wrapped", "copied", "stale", "kept"}
    BY <1>1 DEF NumbersTypeOK
  <2> HIDE DEF first
  <2> QED
    BY <1>2, <2>1
<1>7. NumbersTypeOK'
  BY <1>1, <1>2, <1>3, <1>4, <1>6, TakeTypes
<1>8. CASE "stale" \in sharing' \/ "copied" \in sharing'
  <2>1. sharing' \cap Shared # {}
    BY <1>8 DEF Shared
  <2> QED
    BY <1>2, <1>3, <1>4, <1>7, <2>1, TakeStep
<1>9. CASE sharing' = sharing \cup {"wrapped"} /\ h \notin undercut /\ first
  BY <1>2, <1>3, <1>4, <1>7, <1>9, TakeStep
<1> QED
  BY <1>5, <1>8, <1>9

LEMMA CopyNumbers ==
    ASSUME NumbersInv, NEW s \in Sockets, NEW r \in Sockets, Copy(s, r) PROVE NumbersInv'
<1> DEFINE h == Socket(r)
           n == sockFd[r]
<1>1. NumbersTypeOK
  BY DEF NumbersInv
<1>2. valid[r] /\ Take(s, n, h) /\ sharing' = sharing \cup {"copied"}
  BY DEF Copy
<1>3. n \in Fds /\ n > 0
  <2>1. n > 0 /\ n \in Fds \cup {-1}
    BY <1>1, <1>2 DEF NumbersTypeOK
  <2> QED
    BY <2>1
<1>4. h \in Holders /\ Numbers[h] = n
  BY <1>2, HoldersAre, NumberIs DEF NumberFacts
<1> HIDE DEF h, n
<1>5. sharing' \subseteq {"wrapped", "copied", "stale", "kept"}
  BY <1>1, <1>2 DEF NumbersTypeOK
<1>6. NumbersTypeOK'
  BY <1>1, <1>2, <1>3, <1>4, <1>5, TakeTypes
<1>7. sharing' \cap Shared # {}
  BY <1>2 DEF Shared
<1> QED
  BY <1>2, <1>3, <1>4, <1>6, <1>7, TakeStep

LEMMA SocketNewNumbers ==
    ASSUME NumbersInv, NEW s \in Sockets, SocketNew(s) PROVE NumbersInv'
<1> DEFINE h == Socket(s)
           f == IF Given > 0 THEN files' ELSE 0
<1>1. /\ NumbersTypeOK /\ meant \in [Holders -> 0 .. MaxFiles]
      /\ sockFd \in [Sockets -> Fds \cup {-1}] /\ valid \in [Sockets -> BOOLEAN]
      /\ \A r \in Sockets : valid[r] => sockFd[r] > 0
  BY DEF NumbersInv, NumbersTypeOK
<1>2. /\ sockFd' = [sockFd EXCEPT ![s] = Given]
      /\ valid' = [valid EXCEPT ![s] = (Given > 0)]
      /\ meant' = [meant EXCEPT ![h] = f] /\ undercut' = undercut \ {h}
      /\ sharing' = sharing /\ serverClosed' = serverClosed
      /\ backlog' = backlog /\ listening' = listening
      /\ fd' = fd /\ access' = access /\ saveAll' = saveAll /\ accepted' = accepted
      /\ epFd' = epFd
  BY DEF SocketNew, serverVars
<1>3. /\ \/ Given = -1 /\ UNCHANGED <<table, files>>
         \/ Given \in Fds /\ table[Given] = 0 /\ OpenAt(Given)
      /\ table' \in [Fds -> 0 .. MaxFiles] /\ files' \in 1 .. MaxFiles
      /\ files <= files'
  BY <1>1, IfFree DEF SocketNew
<1>4. /\ h \in Holders /\ h # Server /\ h # Epoll
      /\ \A r \in Sockets : h = Socket(r) => r = s
      /\ \A n \in Fds : h # Client(n)
  BY HoldersAre, HoldersDiffer
<1>5. f \in 0 .. files' /\ f \in 0 .. MaxFiles
  <2>1. MaxFiles \in Nat /\ files' \in 1 .. MaxFiles
    BY <1>3, NumbersAssumption
  <2> QED
    BY <2>1
<1>6. Given > 0 => f = files'
  OBVIOUS
<1>7. Numbers'[h] = IF Given > 0 THEN Given ELSE -1
  BY <1>1, <1>2, NextNumberIs DEF NumberFacts
<1>8. \A r \in Sockets : h = Socket(r) \/ (valid'[r] = valid[r] /\ sockFd'[r] = sockFd[r])
  <2>1. \A r \in Sockets : r # s => valid'[r] = valid[r] /\ sockFd'[r] = sockFd[r]
    BY <1>1, <1>2
  <2> QED
    BY <2>1
<1> HIDE DEF f, h
<1>9. \A g \in Holders \ {h} : Numbers'[g] = Numbers[g]
  <2>1. \A g \in Holders \ {h} : meant'[g] = meant[g]
    BY <1>1, <1>2
  <2> QED
    BY <1>2, <1>4, <1>8, <2>1, OthersStay
<1>10. NumbersTypeOK'
  <2>1. meant' \in [Holders -> 0 .. MaxFiles]
    BY <1>1, <1>2, <1>5
  <2>2. undercut' \subseteq Holders
    BY <1>1, <1>2 DEF NumbersTypeOK
  <2>3. Given \in Fds \cup {-1}
    BY <1>3
  <2>4. sockFd' \in [Sockets -> Fds \cup {-1}] /\ valid' \in [Sockets -> BOOLEAN]
    BY <1>1, <1>2, <2>3
  <2>5. \A r \in Sockets : valid'[r] => sockFd'[r] > 0
    BY <1>1, <1>2
  <2> QED
    BY <1>1, <1>2, <1>3, <2>1, <2>2, <2>4, <2>5 DEF NumbersTypeOK
<1>11. CASE ~(Given > 0)
  <2>1. Numbers'[h] = -1
    BY <1>7, <1>11
  <2>2. \/ UNCHANGED <<table, files>>
        \/ \E n \in Fds : table[n] = 0 /\ OpenAt(n)
    BY <1>3
  <2>3. undercut' \in {undercut, undercut \ {h}}
    BY <1>2
  <2>4. /\ sharing' = sharing /\ serverClosed' = serverClosed /\ files <= files'
        /\ meant' = [meant EXCEPT ![h] = f]
    BY <1>2, <1>3
  <2> QED
    BY <1>4, <1>5, <1>9, <1>10, <2>1, <2>2, <2>3, <2>4, NobodyAlone
<1>12. CASE Given > 0
  <2>1. Given \in Fds /\ table[Given] = 0 /\ OpenAt(Given) /\ Numbers'[h] = Given
    BY <1>3, <1>7, <1>12
  <2>2. meant' = [meant EXCEPT ![h] = files + 1]
    <3>1. files' = files + 1
      BY <1>1, <2>1, OpenTypes
    <3> QED
      BY <1>2, <1>6, <1>12, <3>1
  <2> QED
    BY <1>2, <1>4, <1>9, <1>10, <2>1, <2>2, OpenStep
<1> QED
  BY <1>11, <1>12

LEMMA SocketCloseNumbers ==
    ASSUME NumbersInv, NEW s \in Sockets, SocketClose(s) PROVE NumbersInv'
<1> DEFINE h == Socket(s)
<1>1. /\ NumbersTypeOK /\ valid \in [Sockets -> BOOLEAN]
      /\ \A r \in Sockets : valid[r] => sockFd[r] > 0
  BY DEF NumbersInv, NumbersTypeOK
<1>2. /\ h \in Holders /\ h # Server /\ h # Epoll /\ Kind(h) # "client"
      /\ \A r \in Sockets : h = Socket(r) => r = s
      /\ \A m \in Fds : h # Client(m)
  BY HoldersAre, HoldersDiffer
<1>3. /\ CloseAll({h}) /\ sharing' = sharing /\ serverClosed' = serverClosed
      /\ fd' = fd /\ access' = access /\ saveAll' = saveAll /\ accepted' = accepted
      /\ sockFd' = sockFd /\ valid' = [valid EXCEPT ![s] = FALSE] /\ epFd' = epFd
  BY DEF SocketClose, serverVars
<1>4. NumbersTypeOK'
  <2>1. valid' \in [Sockets -> BOOLEAN] /\ \A r \in Sockets : valid'[r] => sockFd'[r] > 0
    BY <1>1, <1>3
  <2> QED
    BY <1>1, <1>3, <2>1, CloseTypes DEF CloseAll, NumbersTypeOK
<1>5. \A g \in Holders \ {h} : meant'[g] = meant[g]
  BY <1>1, <1>2, <1>3, MeantOfOthers
<1>6. Numbers'[h] = -1
  BY <1>1, <1>3, NextNumberIs DEF NumberFacts
<1>7. \A r \in Sockets : h = Socket(r) \/ (valid'[r] = valid[r] /\ sockFd'[r] = sockFd[r])
  BY <1>1, <1>3
<1> HIDE DEF h
<1>8. \A g \in Holders \ {h} : Numbers'[g] = Numbers[g]
  BY <1>2, <1>3, <1>5, <1>7, OthersStay
<1>9. serverClosed' \/ ~serverClosed
  BY <1>3
<1> QED
  BY <1>2, <1>3, <1>4, <1>6, <1>8, <1>9, CloseOne

LEMMA SocketDestroyNumbers ==
    ASSUME NumbersInv, NEW s \in Sockets, SocketDestroy(s) PROVE NumbersInv'
<1> DEFINE h == Socket(s)
<1>1. /\ NumbersTypeOK /\ valid \in [Sockets -> BOOLEAN]
      /\ \A r \in Sockets : valid[r] => sockFd[r] > 0
      /\ meant \in [Holders -> 0 .. MaxFiles] /\ undercut \subseteq Holders
      /\ MaxFiles \in Nat /\ files \in 1 .. MaxFiles
  BY NumbersAssumption DEF NumbersInv, NumbersTypeOK
<1>2. /\ h \in Holders /\ h # Server /\ h # Epoll
      /\ \A r \in Sockets : h = Socket(r) => r = s
      /\ \A m \in Fds : h # Client(m)
  BY HoldersAre, HoldersDiffer
<1>3. /\ valid' = [valid EXCEPT ![s] = FALSE] /\ meant' = [meant EXCEPT ![h] = 0]
      /\ undercut' = undercut \ {h}
      /\ sharing' = sharing /\ serverClosed' = serverClosed
      /\ table' = table /\ files' = files /\ backlog' = backlog /\ listening' = listening
      /\ fd' = fd /\ access' = access /\ saveAll' = saveAll /\ accepted' = accepted
      /\ sockFd' = sockFd /\ epFd' = epFd
  BY DEF SocketDestroy, tableVars, serverVars
<1>4. Numbers'[h] = -1
  BY <1>1, <1>3, NextNumberIs DEF NumberFacts
<1>5. \A r \in Sockets : h = Socket(r) \/ (valid'[r] = valid[r] /\ sockFd'[r] = sockFd[r])
  BY <1>1, <1>3
<1> HIDE DEF h
<1>6. NumbersTypeOK'
  <2>1. valid' \in [Sockets -> BOOLEAN] /\ \A r \in Sockets : valid'[r] => sockFd'[r] > 0
    BY <1>1, <1>3
  <2>2. meant' \in [Holders -> 0 .. MaxFiles] /\ undercut' \subseteq Holders
    <3>1. 0 \in 0 .. MaxFiles
      BY <1>1
    <3> QED
      BY <1>1, <1>3, <3>1
  <2> QED
    BY <1>1, <1>3, <2>1, <2>2 DEF NumbersTypeOK
<1>7. \A g \in Holders \ {h} : Numbers'[g] = Numbers[g]
  <2>1. \A g \in Holders \ {h} : meant'[g] = meant[g]
    BY <1>1, <1>3
  <2> QED
    BY <1>2, <1>3, <1>5, <2>1, OthersStay
<1>8. UNCHANGED <<table, files>> /\ 0 \in 0 .. files' /\ files <= files'
  BY <1>1, <1>3
<1>9. undercut' \in {undercut, undercut \ {h}}
  BY <1>3
<1> QED
  BY <1>2, <1>3, <1>4, <1>6, <1>7, <1>8, <1>9, NobodyAlone

LEMMA EpollInitNumbers ==
    ASSUME NumbersInv, EpollInit PROVE NumbersInv'
<1> DEFINE n == Given
           f == IF n > 0 THEN files' ELSE 0
<1>1. NumbersTypeOK /\ meant \in [Holders -> 0 .. MaxFiles]
  BY DEF NumbersInv, NumbersTypeOK
<1>2. n \in Fds /\ table[n] = 0 /\ OpenAt(n)
  BY GivenIsFree DEF EpollInit
<1>3. /\ table' \in [Fds -> 0 .. MaxFiles] /\ files' \in 1 .. MaxFiles
      /\ files' = files + 1 /\ files \in Nat /\ MaxFiles \in Nat
  BY <1>1, <1>2, OpenTypes, NumbersAssumption
<1>4. /\ epFd' = n /\ meant' = [meant EXCEPT ![Epoll] = f]
      /\ undercut' = undercut /\ sharing' = sharing /\ serverClosed' = serverClosed
      /\ backlog' = backlog /\ listening' = listening
      /\ fd' = fd /\ access' = access /\ saveAll' = saveAll /\ accepted' = accepted
      /\ sockFd' = sockFd /\ valid' = valid
  BY DEF EpollInit, serverVars
<1>5. /\ Epoll \in Holders /\ Epoll # Server
      /\ \A s \in Sockets : Epoll # Socket(s)
      /\ \A m \in Fds : Epoll # Client(m)
  BY HoldersAre, HoldersDiffer
<1>6. f \in 0 .. files' /\ f \in 0 .. MaxFiles
  BY <1>3
<1>7. n > 0 => f = files'
  OBVIOUS
<1>8. Numbers'[Epoll] = IF n > 0 THEN n ELSE -1
  BY <1>4, NextNumberIs DEF NumberFacts
<1> HIDE DEF f, n
<1>9. NumbersTypeOK'
  <2>1. meant' \in [Holders -> 0 .. MaxFiles]
    BY <1>1, <1>4, <1>6
  <2> QED
    BY <1>1, <1>2, <1>3, <1>4, <2>1 DEF NumbersTypeOK
<1>10. \A g \in Holders \ {Epoll} : Numbers'[g] = Numbers[g]
  <2>1. \A g \in Holders \ {Epoll} : meant'[g] = meant[g]
    BY <1>1, <1>4
  <2> QED
    BY <1>4, <1>5, <2>1, OthersStay
<1>11. CASE n > 0
  <2>1. meant' = [meant EXCEPT ![Epoll] = files + 1]
    BY <1>3, <1>4, <1>7, <1>11
  <2>2. Numbers'[Epoll] = n
    BY <1>8, <1>11
  <2> QED
    BY <1>2, <1>4, <1>5, <1>9, <1>10, <2>1, <2>2, OpenStep
<1>12. CASE ~(n > 0)
  <2>1. Numbers'[Epoll] = -1
    BY <1>8, <1>12
  <2>2. /\ \E m \in Fds : table[m] = 0 /\ OpenAt(m)
        /\ files <= files' /\ undercut' \in {undercut, undercut \ {Epoll}}
    BY <1>2, <1>3, <1>4
  <2> QED
    BY <1>4, <1>5, <1>6, <1>9, <1>10, <2>1, <2>2, NobodyAlone
<1> QED
  BY <1>11, <1>12

\* The number is closed and kept.
LEMMA EpollShutdownNumbers ==
    ASSUME NumbersInv, EpollShutdown PROVE NumbersInv'
<1> DEFINE hs == {Epoll}
           freed == {}
<1>1. NumbersTypeOK /\ meant \in [Holders -> 0 .. MaxFiles]
  BY DEF NumbersInv, NumbersTypeOK
<1>2. /\ CloseSome(hs, freed) /\ sharing' = sharing \cup {"kept"}
      /\ serverClosed' = serverClosed
      /\ fd' = fd /\ access' = access /\ saveAll' = saveAll /\ accepted' = accepted
      /\ sockFd' = sockFd /\ valid' = valid /\ epFd' = epFd
  BY DEF EpollShutdown, serverVars, socketVars
<1>3. hs \in SUBSET Holders /\ freed \in {hs, {}} /\ Kind(Epoll) # "client"
  BY HoldersAre
<1>4. \A h \in hs : Kind(h) # "client"
  BY <1>3
<1>5. meant' = meant
  BY <1>1, <1>2 DEF CloseSome
<1>6. Numbers' = Numbers
  BY <1>2, <1>5 DEF Numbers, Number
<1>7. \A h \in Holders : Numbers'[h] = Numbers[h] /\ h \notin freed
  BY <1>6
<1>8. serverClosed' \/ ~serverClosed
  BY <1>2
<1> HIDE DEF hs, freed
<1>9. NumbersTypeOK'
  <2>1. /\ table' \in [Fds -> 0 .. MaxFiles] /\ meant' \in [Holders -> 0 .. MaxFiles]
        /\ undercut' \subseteq Holders
        /\ files' = files /\ backlog' = backlog /\ listening' = listening
    BY <1>1, <1>2, CloseTypes
  <2>2. sharing' \subseteq {"wrapped", "copied", "stale", "kept"}
    BY <1>1, <1>2 DEF NumbersTypeOK
  <2> QED
    BY <1>1, <1>2, <2>1, <2>2 DEF NumbersTypeOK
<1>10. sharing \subseteq sharing' /\ "kept" \in sharing'
  BY <1>2
<1>11. serverClosed' \/ (~serverClosed /\ \A h \in hs : Kind(h) # "client")
  BY <1>2, <1>4, <1>8
<1> QED
  BY <1>2, <1>3, <1>7, <1>9, <1>10, <1>11, CloseStep

LEMMA EpollDestroyNumbers ==
    ASSUME NumbersInv, EpollDestroy PROVE NumbersInv'
<1>1. NumbersTypeOK
  BY DEF NumbersInv
<1>2. /\ Epoll \in Holders /\ Epoll # Server /\ Kind(Epoll) # "client"
      /\ \A s \in Sockets : Epoll # Socket(s)
      /\ \A m \in Fds : Epoll # Client(m)
  BY HoldersAre, HoldersDiffer
<1>3. /\ CloseAll({Epoll}) /\ epFd' = -1
      /\ sharing' = sharing /\ serverClosed' = serverClosed
      /\ fd' = fd /\ access' = access /\ saveAll' = saveAll /\ accepted' = accepted
      /\ sockFd' = sockFd /\ valid' = valid
  BY DEF EpollDestroy, serverVars
<1>4. NumbersTypeOK'
  BY <1>1, <1>3, CloseTypes DEF CloseAll, NumbersTypeOK
<1>5. \A g \in Holders \ {Epoll} : meant'[g] = meant[g]
  BY <1>1, <1>2, <1>3, MeantOfOthers
<1>6. Numbers'[Epoll] = -1
  BY <1>3, NextNumberIs DEF NumberFacts
<1>7. \A g \in Holders \ {Epoll} : Numbers'[g] = Numbers[g]
  BY <1>2, <1>3, <1>5, OthersStay
<1>8. serverClosed' \/ ~serverClosed
  BY <1>3
<1> QED
  BY <1>2, <1>3, <1>4, <1>6, <1>7, <1>8, CloseOne

-------------------------------------------------------------------------------
(* The theorems.                                                             *)

LEMMA StepNumbers == NumbersInv /\ [NumbersNext]_numberVars => NumbersInv'
<1> SUFFICES ASSUME NumbersInv, [NumbersNext]_numberVars PROVE NumbersInv'
  OBVIOUS
<1>1. CASE Connect \/ UNCHANGED numberVars
  BY <1>1, QuietNumbers
<1>2. CASE OpenOther
  BY <1>2, OpenOtherNumbers
<1>3. ASSUME NEW n \in Fds, CloseOther(n) PROVE NumbersInv'
  BY <1>3, CloseOtherNumbers
<1>4. CASE ServerStep
  <2>1. CASE Listen \/ \E b \in BOOLEAN : AutoSaveAcceptedFD(b)
    BY <2>1, QuietNumbers
  <2>2. CASE ServerInit
    BY <2>2, ServerInitNumbers
  <2>3. CASE Accept
    BY <2>3, AcceptNumbers
  <2>4. CASE Shutdown
    BY <2>4, ShutdownNumbers
  <2>5. ASSUME NEW n \in Fds, CloseClient(n) PROVE NumbersInv'
    BY <2>5, CloseClientNumbers
  <2> QED
    BY <1>4, <2>1, <2>2, <2>3, <2>4, <2>5 DEF ServerStep
<1>5. ASSUME NEW s \in Sockets, SocketStep(s) PROVE NumbersInv'
  <2>1. CASE SocketNew(s)
    BY <2>1, SocketNewNumbers
  <2>2. CASE SocketClose(s)
    BY <2>2, SocketCloseNumbers
  <2>3. CASE SocketDestroy(s)
    BY <2>3, SocketDestroyNumbers
  <2>4. ASSUME NEW n \in Fds, Wrap(s, n) PROVE NumbersInv'
    BY <2>4, WrapNumbers
  <2>5. ASSUME NEW r \in Sockets, Copy(s, r) PROVE NumbersInv'
    BY <2>5, CopyNumbers
  <2> QED
    BY <1>5, <2>1, <2>2, <2>3, <2>4, <2>5 DEF SocketStep
<1>6. CASE EpollInit
  BY <1>6, EpollInitNumbers
<1>7. CASE EpollShutdown
  BY <1>7, EpollShutdownNumbers
<1>8. CASE EpollDestroy
  BY <1>8, EpollDestroyNumbers
<1> QED
  BY <1>1, <1>2, <1>3, <1>4, <1>5, <1>6, <1>7, <1>8 DEF NumbersNext

LEMMA NumbersAlways == NumbersSpec => []NumbersInv
BY InitNumbers, StepNumbers, PTL DEF NumbersSpec

\* The server, its sockets, the Demultiplexer and the rest of the program hold
\* numbers of the table, and files there are; a valid socket's is above 0.
THEOREM NumbersTypeCorrect == NumbersSpec => []NumbersTypeOK
<1>1. NumbersInv => NumbersTypeOK
  BY DEF NumbersInv
<1> QED
  BY <1>1, NumbersAlways, PTL

\* What a holder would close is the file its number was given to it for, unless
\* another has closed it; that takes a number handed on to a socket, and reaches
\* another than the server only by copies, stale numbers, a Demultiplexer shut
\* down and kept, or the server closing what it has handed on.
THEOREM NumbersStayTrue == NumbersSpec => []NumbersAreTrue
<1>1. NumbersInv => NumbersAreTrue
  <2> SUFFICES ASSUME NumbersInv PROVE NumbersAreTrue
    OBVIOUS
  <2>1. ASSUME NEW h \in Holding \ undercut PROVE OpenFile(Number(h)) = meant[h]
    <3>1. h \in Holders /\ Number(h) \in Fds /\ Numbers[h] = Number(h)
      BY DEF Holding, Numbers
    <3>2. table[Number(h)] = meant[h]
      BY <2>1, <3>1 DEF NumbersInv, True
    <3> QED
      BY <3>1, <3>2 DEF OpenFile
  <2>2. undercut # {} => sharing # {}
    BY DEF NumbersInv, OneEach
  <2>3. (\E h \in undercut : h[1] # "client") =>
          serverClosed \/ sharing \cap {"copied", "stale", "kept"} # {}
    BY DEF NumbersInv, OneSocketEach, Kind, Shared
  <2> QED
    BY <2>1, <2>2, <2>3 DEF NumbersAreTrue
<1> QED
  BY <1>1, NumbersAlways, PTL

===============================================================================
