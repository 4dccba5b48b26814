-------------------------- MODULE TokenStoreProofs --------------------------
(***************************************************************************)
(* Who a token lets in, and tokens that stay, proved for every number of   *)
(* tokens, names and CLI processes and for every number of failed writes.  *)
(***************************************************************************)
EXTENDS TokenStore, SequenceTheorems, WellFoundedInduction, TLAPS

Files == [ok : BOOLEAN, list : Seq(Entry)]
Known == DOMAIN issued \union {NoToken}

\* A list of entries of tokens in known, each at most once; an entry cut short may have
\* lost its hash.
Sound(list, known) ==
    /\ list \in Seq(Entry)
    /\ \A k \in DOMAIN list : list[k].tok \in known
    /\ \A j, k \in DOMAIN list : list[j].tok = list[k].tok /\ list[k].tok # NoToken => j = k

\* Its entries carry the given terms.
Faithful(list, terms) ==
    \A k \in DOMAIN list : list[k].tok # NoToken =>
      list[k].exp = terms[list[k].tok].exp /\ list[k].one = terms[list[k].tok].one

\* No entry of it is of a token in gone, and one-time entries of tokens in let are marked.
Shuts(list, gone, let) ==
    \A k \in DOMAIN list : list[k].tok # NoToken =>
      /\ list[k].tok \notin gone
      /\ list[k].one /\ list[k].tok \in let => list[k].used

\* Types of the variables.
StoreTypes ==
    /\ mem \in Seq(Entry) /\ file \in Files
    /\ server \in {"up", "down"}
    /\ cli \in [CLIs -> [on : BOOLEAN, list : Seq(Entry)]]
    /\ DOMAIN issued \subseteq Tokens
    /\ \A t \in DOMAIN issued : issued[t] \in Offered \union {JobTerms}
    /\ lost \in 0..MaxLost
    /\ jobs \subseteq [tok : holders, name : Names]
    /\ holders \union expired \union admitted \union admittedNow \subseteq DOMAIN issued
    /\ revoked \union revokedNow \union cliRevoked \subseteq Known
    /\ settled \subseteq cliRevoked

\* The lists in memory, in the file and in the CLI processes are sound,
ListsSound ==
    /\ Sound(mem, Known) /\ Sound(file.list, Known)
    /\ \A p \in CLIs : Sound(cli[p].list, Known)

\* and carry the terms of the tokens while no write was cut short.
ListsFaithful ==
    lost = 0 => /\ Faithful(mem, issued) /\ Faithful(file.list, issued)
                /\ \A p \in CLIs : Faithful(cli[p].list, issued)

\* Within one run of the server its list shuts out who is to stay out,
RunInv == Shuts(mem, revokedNow, admittedNow)

\* and over restarts it does together with the file.
StayInv ==
    Undamaged => /\ Shuts(mem, revoked \union settled, admitted)
                 /\ Shuts(file.list, revoked \union cliRevoked, admitted)

\* The inductive invariant.
TokenInv == StoreTypes /\ ListsSound /\ ListsFaithful /\ RunInv /\ StayInv /\ TokensKept

-----------------------------------------------------------------------------
(* Lists.                                                                  *)

\* A set of natural numbers that is not empty has a least one.
LEMMA LeastFound == ASSUME NEW I \in SUBSET Nat, I # {} PROVE Min(I) \in I
<1>1. IsWellFoundedOn(OpToRel(<, Nat), Nat)
  BY NatLessThanWellFounded
<1>2. PICK x \in I : \A y \in I : ~(<<y, x>> \in OpToRel(<, Nat))
  BY <1>1, WFMin
<1>3. ASSUME NEW y \in I PROVE x <= y
  <2>1. <<y, x>> \notin OpToRel(<, Nat)
    BY <1>2
  <2>2. ~(y < x)
    BY <2>1 DEF OpToRel
  <2>3. x \in Nat /\ y \in Nat
    OBVIOUS
  <2>4. QED
    BY <2>2, <2>3
<1>4. QED
  BY <1>3 DEF Min

\* FirstNamed finds an entry of the list.
LEMMA NamedFound ==
  ASSUME NEW list \in Seq(Entry), NEW n, FirstNamed(list, n) # 0
  PROVE  FirstNamed(list, n) \in DOMAIN list
<1> DEFINE I == {i \in 1..Len(list) : list[i].name = n}
<1>1. FirstNamed(list, n) = IF I # {} THEN Min(I) ELSE 0
  BY DEF FirstNamed, SelectInSeq
<1>2. I \in SUBSET Nat /\ I # {}
  BY <1>1
<1>3. FirstNamed(list, n) \in I
  BY <1>1, <1>2, LeastFound
<1>4. QED
  BY <1>3

\* Matching finds an entry of the token.
LEMMA MatchFound ==
  ASSUME mem \in Seq(Entry), NEW t, Matching(t) # 0
  PROVE  Matching(t) \in DOMAIN mem /\ mem[Matching(t)].tok = t
<1> DEFINE I == {i \in 1..Len(mem) : mem[i].tok = t}
<1>1. Matching(t) = IF I # {} THEN Min(I) ELSE 0
  BY DEF Matching, SelectInSeq
<1>2. I \in SUBSET Nat /\ I # {}
  BY <1>1
<1>3. Matching(t) \in I
  BY <1>1, <1>2, LeastFound
<1>4. QED
  BY <1>3

\* Add: a new entry at the end.
LEMMA AppendEntry ==
  ASSUME NEW list \in Seq(Entry), NEW e \in Entry
  PROVE  /\ Append(list, e) \in Seq(Entry)
         /\ \A k \in DOMAIN list : k \in DOMAIN Append(list, e) /\ Append(list, e)[k] = list[k]
         /\ Len(list) + 1 \in DOMAIN Append(list, e) /\ Append(list, e)[Len(list) + 1] = e
         /\ \A k \in DOMAIN Append(list, e) : k \in DOMAIN list \/ k = Len(list) + 1
  OBVIOUS

\* The list with a new token's entry is as good as before.
LEMMA AddedList ==
  ASSUME NEW known, NEW list, Sound(list, known), NEW e \in Entry, e.tok \notin known,
         e.tok # NoToken
  PROVE  /\ Sound(Append(list, e), known \union {e.tok})
         /\ Toks(Append(list, e)) = Toks(list) \union {e.tok}
         /\ \A terms : Faithful(list, terms) /\ e.exp = terms[e.tok].exp /\ e.one = terms[e.tok].one
                         => Faithful(Append(list, e), terms)
         /\ \A gone, let : Shuts(list, gone, let) /\ e.tok \notin gone \union let
                             => Shuts(Append(list, e), gone, let)
<1> DEFINE new == Append(list, e)
<1>1. list \in Seq(Entry)
  BY DEF Sound
<1>2. /\ new \in Seq(Entry)
      /\ \A k \in DOMAIN list : k \in DOMAIN new /\ new[k] = list[k]
      /\ Len(list) + 1 \in DOMAIN new /\ new[Len(list) + 1] = e
      /\ \A k \in DOMAIN new : k \in DOMAIN list \/ k = Len(list) + 1
  BY <1>1, AppendEntry
<1> HIDE DEF new
<1>3. Sound(new, known \union {e.tok})
  BY <1>2 DEF Sound
<1>4. Toks(new) = Toks(list) \union {e.tok}
  BY <1>2 DEF Toks
<1>5. ASSUME NEW terms, Faithful(list, terms), e.exp = terms[e.tok].exp, e.one = terms[e.tok].one
      PROVE  Faithful(new, terms)
  BY <1>2, <1>5 DEF Faithful
<1>6. ASSUME NEW gone, NEW let, Shuts(list, gone, let), e.tok \notin gone \union let
      PROVE  Shuts(new, gone, let)
  BY <1>2, <1>6 DEF Shuts
<1>7. QED
  BY <1>3, <1>4, <1>5, <1>6 DEF new

\* Validate marks an entry as used.
LEMMA UsedEntry ==
  ASSUME NEW list \in Seq(Entry), NEW k \in DOMAIN list
  PROVE  LET new == [list EXCEPT ![k].used = TRUE]
         IN /\ new \in Seq(Entry) /\ DOMAIN new = DOMAIN list
            /\ \A j \in DOMAIN list : /\ new[j].tok = list[j].tok /\ new[j].exp = list[j].exp
                                      /\ new[j].one = list[j].one
                                      /\ j # k => new[j].used = list[j].used
            /\ new[k].used = TRUE
<1> DEFINE new == [list EXCEPT ![k].used = TRUE]
           e == [list[k] EXCEPT !.used = TRUE]
<1>0. list[k] \in Entry /\ k \in 1..Len(list) /\ DOMAIN list = 1..Len(list)
  BY LenProperties, ElementOfSeq
<1>1. e \in Entry
  BY <1>0 DEF Entry
<1>2. /\ e.tok = list[k].tok /\ e.exp = list[k].exp /\ e.one = list[k].one
      /\ e.used = TRUE
  BY <1>0 DEF Entry
<1>3. new = [list EXCEPT ![k] = e]
  OBVIOUS
<1> HIDE DEF e
<1>4. new \in Seq(Entry) /\ DOMAIN new = DOMAIN list /\ new[k] = e
      /\ \A j \in DOMAIN list : j # k => new[j] = list[j]
  <2>1. new \in Seq(Entry)
    BY <1>0, <1>1, <1>3, ExceptSeq
  <2>2. QED
    BY <1>0, <1>3, <2>1
<1> HIDE DEF new
<1>5. QED
  BY <1>2, <1>4 DEF new

\* The list with an entry marked is as good as before, and shuts out its token.
LEMMA UsedList ==
  ASSUME NEW known, NEW list, Sound(list, known), NEW k \in DOMAIN list
  PROVE  LET new == [list EXCEPT ![k].used = TRUE]
         IN /\ Sound(new, known) /\ Toks(new) = Toks(list)
            /\ \A terms : Faithful(list, terms) => Faithful(new, terms)
            /\ \A gone, let : Shuts(list, gone, let) => Shuts(new, gone, let \union {list[k].tok})
<1> DEFINE new == [list EXCEPT ![k].used = TRUE]
<1>1. list \in Seq(Entry)
  BY DEF Sound
<1>2. /\ new \in Seq(Entry) /\ DOMAIN new = DOMAIN list
      /\ \A j \in DOMAIN list : /\ new[j].tok = list[j].tok /\ new[j].exp = list[j].exp
                                /\ new[j].one = list[j].one
                                /\ j # k => new[j].used = list[j].used
      /\ new[k].used = TRUE
  BY <1>1, UsedEntry
<1> HIDE DEF new
<1>3. Sound(new, known)
  BY <1>2 DEF Sound
<1>4. Toks(new) = Toks(list)
  BY <1>2 DEF Toks
<1>5. ASSUME NEW terms, Faithful(list, terms) PROVE Faithful(new, terms)
  BY <1>2, <1>5 DEF Faithful
<1>6. ASSUME NEW gone, NEW let, Shuts(list, gone, let)
      PROVE  Shuts(new, gone, let \union {list[k].tok})
  BY <1>2, <1>6 DEF Shuts, Sound
<1>7. QED
  BY <1>3, <1>4, <1>5, <1>6 DEF new

\* Revoke takes an entry out and closes the gap.
LEMMA RemovedEntry ==
  ASSUME NEW list \in Seq(Entry), NEW k \in DOMAIN list
  PROVE  /\ RemoveAt(list, k) \in Seq(Entry)
         /\ \A j \in DOMAIN RemoveAt(list, k) :
              /\ j < k => j \in DOMAIN list /\ RemoveAt(list, k)[j] = list[j]
              /\ ~(j < k) => j + 1 \in DOMAIN list /\ RemoveAt(list, k)[j] = list[j + 1]
         /\ \A j \in DOMAIN list :
              /\ j < k => j \in DOMAIN RemoveAt(list, k) /\ RemoveAt(list, k)[j] = list[j]
              /\ j > k => j - 1 \in DOMAIN RemoveAt(list, k) /\ RemoveAt(list, k)[j - 1] = list[j]
<1> DEFINE a == SubSeq(list, 1, k - 1)
           b == SubSeq(list, k + 1, Len(list))
<1>1. k \in 1..Len(list)
  OBVIOUS
<1>2. a \in Seq(Entry) /\ Len(a) = k - 1 /\ \A j \in 1..(k - 1) : a[j] = list[j]
  BY <1>1
<1>3. b \in Seq(Entry) /\ Len(b) = Len(list) - k /\ \A j \in 1..(Len(list) - k) : b[j] = list[k + j]
  BY <1>1
<1> HIDE DEF a, b
<1>4. /\ a \o b \in Seq(Entry) /\ Len(a \o b) = Len(list) - 1
      /\ \A j \in 1..(Len(list) - 1) : (a \o b)[j] = IF j < k THEN list[j] ELSE list[j + 1]
  <2>1. /\ a \o b \in Seq(Entry) /\ Len(a \o b) = Len(a) + Len(b)
        /\ \A j \in 1..(Len(a) + Len(b)) :
             (a \o b)[j] = IF j <= Len(a) THEN a[j] ELSE b[j - Len(a)]
    BY <1>2, <1>3, ConcatProperties
  <2>2. Len(a) + Len(b) = Len(list) - 1 /\ Len(list) \in Nat
    BY <1>2, <1>3
  <2>3. ASSUME NEW j \in 1..(Len(list) - 1)
        PROVE  (a \o b)[j] = IF j < k THEN list[j] ELSE list[j + 1]
    <3>1. (a \o b)[j] = IF j <= k - 1 THEN a[j] ELSE b[j - (k - 1)]
      BY <1>2, <2>1, <2>2
    <3>2. CASE j < k
      BY <1>1, <1>2, <2>2, <3>1, <3>2
    <3>3. CASE ~(j < k)
      <4>1. j - (k - 1) \in 1..(Len(list) - k) /\ k + (j - (k - 1)) = j + 1
        BY <1>1, <2>2, <3>3
      <4>2. b[j - (k - 1)] = list[k + (j - (k - 1))]
        BY <1>3, <4>1
      <4>3. ~(j <= k - 1)
        BY <1>1, <2>2, <3>3
      <4>4. QED
        BY <3>1, <3>3, <4>1, <4>2, <4>3
    <3>4. QED
      BY <3>2, <3>3
  <2>4. QED
    BY <2>1, <2>2, <2>3
<1>5. RemoveAt(list, k) = a \o b
  BY DEF RemoveAt, a, b
<1> DEFINE new == RemoveAt(list, k)
<1>6. /\ new \in Seq(Entry) /\ Len(list) \in Nat
      /\ DOMAIN new = 1..(Len(list) - 1) /\ DOMAIN list = 1..Len(list)
      /\ \A j \in 1..(Len(list) - 1) : new[j] = IF j < k THEN list[j] ELSE list[j + 1]
  BY <1>4, <1>5, LenProperties
<1> HIDE DEF new
<1>7. ASSUME NEW j \in DOMAIN new
      PROVE  /\ j < k => j \in DOMAIN list /\ new[j] = list[j]
             /\ ~(j < k) => j + 1 \in DOMAIN list /\ new[j] = list[j + 1]
  BY <1>1, <1>6
<1>8. ASSUME NEW j \in DOMAIN list
      PROVE  /\ j < k => j \in DOMAIN new /\ new[j] = list[j]
             /\ j > k => j - 1 \in DOMAIN new /\ new[j - 1] = list[j]
  BY <1>1, <1>6
<1>9. QED
  BY <1>6, <1>7, <1>8 DEF new

\* The list with an entry removed is as good as before, and shuts out its token.
LEMMA RemovedList ==
  ASSUME NEW known, NEW list, Sound(list, known), NEW k \in DOMAIN list
  PROVE  /\ Sound(RemoveAt(list, k), known)
         /\ Toks(list) \ {list[k].tok} \subseteq Toks(RemoveAt(list, k))
         /\ \A terms : Faithful(list, terms) => Faithful(RemoveAt(list, k), terms)
         /\ \A gone, let : Shuts(list, gone, let)
                             => Shuts(RemoveAt(list, k), gone \union {list[k].tok}, let)
<1> DEFINE new == RemoveAt(list, k)
<1>1. list \in Seq(Entry) /\ DOMAIN list \subseteq Nat
  BY LenProperties DEF Sound
<1>2. /\ new \in Seq(Entry)
      /\ \A j \in DOMAIN new :
           /\ j < k => j \in DOMAIN list /\ new[j] = list[j]
           /\ ~(j < k) => j + 1 \in DOMAIN list /\ new[j] = list[j + 1]
      /\ \A j \in DOMAIN list :
           /\ j < k => j \in DOMAIN new /\ new[j] = list[j]
           /\ j > k => j - 1 \in DOMAIN new /\ new[j - 1] = list[j]
  BY <1>1, RemovedEntry
<1> HIDE DEF new
<1>3. DOMAIN new \subseteq Nat
  BY <1>2, LenProperties
\* Every entry of the new list is one of the old list, and not the one removed.
<1>4. \A j \in DOMAIN new : \E i \in DOMAIN list : i # k /\ new[j] = list[i]
  <2> SUFFICES ASSUME NEW j \in DOMAIN new PROVE \E i \in DOMAIN list : i # k /\ new[j] = list[i]
    OBVIOUS
  <2>1. CASE j < k
    BY <1>1, <1>2, <1>3, <2>1
  <2>2. CASE ~(j < k)
    BY <1>1, <1>2, <1>3, <2>2
  <2>3. QED
    BY <2>1, <2>2
<1>5. \A j \in DOMAIN new : new[j].tok # NoToken => new[j].tok # list[k].tok
  BY <1>4 DEF Sound
<1>6. Sound(new, known)
  <2>1. \A j \in DOMAIN new : new[j].tok \in known
    BY <1>4 DEF Sound
  <2>2. ASSUME NEW i \in DOMAIN new, NEW j \in DOMAIN new, new[i].tok = new[j].tok,
               new[j].tok # NoToken
        PROVE  i = j
    <3>1. i \in Nat /\ j \in Nat /\ k \in Nat
      BY <1>1, <1>3
    <3>2. CASE i < k /\ j < k
      BY <1>2, <2>2, <3>2 DEF Sound
    <3>3. CASE ~(i < k) /\ ~(j < k)
      <4>1. i + 1 = j + 1
        BY <1>2, <2>2, <3>3 DEF Sound
      <4>2. QED
        BY <3>1, <4>1
    <3>4. CASE i < k /\ ~(j < k)
      <4>1. i = j + 1
        BY <1>2, <2>2, <3>4 DEF Sound
      <4>2. QED
        BY <3>1, <3>4, <4>1
    <3>5. CASE ~(i < k) /\ j < k
      <4>1. i + 1 = j
        BY <1>2, <2>2, <3>5 DEF Sound
      <4>2. QED
        BY <3>1, <3>5, <4>1
    <3>6. QED
      BY <3>2, <3>3, <3>4, <3>5
  <2>3. QED
    BY <1>2, <2>1, <2>2 DEF Sound
<1>7. Toks(list) \ {list[k].tok} \subseteq Toks(new)
  <2> SUFFICES ASSUME NEW j \in DOMAIN list, list[j].tok # list[k].tok
               PROVE  \E i \in DOMAIN new : new[i].tok = list[j].tok
    BY DEF Toks
  <2>1. j < k \/ j > k
    BY <1>1
  <2>2. QED
    BY <1>2, <2>1
<1>8. ASSUME NEW terms, Faithful(list, terms) PROVE Faithful(new, terms)
  BY <1>4, <1>8 DEF Faithful
<1>9. ASSUME NEW gone, NEW let, Shuts(list, gone, let)
      PROVE  Shuts(new, gone \union {list[k].tok}, let)
  BY <1>4, <1>5, <1>9 DEF Shuts
<1>10. QED
  BY <1>6, <1>7, <1>8, <1>9 DEF new

\* What is left of an entry is an entry, of the same token or of none.
LEMMA CutEntryType ==
  ASSUME NEW e \in Entry, NEW c \in CutEntry(e) PROVE c \in Entry /\ c.tok \in {e.tok, NoToken}
  BY DEF CutEntry, Entry

\* A write that is cut short leaves a sound list, or nothing that parses.
LEMMA TornList ==
  ASSUME NEW known, NoToken \in known, NEW list, Sound(list, known), NEW torn \in Torn(list)
  PROVE  torn \in Files /\ Sound(torn.list, known)
<1>1. list \in Seq(Entry) /\ DOMAIN list = 1..Len(list) /\ Len(list) \in Nat
      /\ \A k \in 1..Len(list) : list[k] \in Entry
  BY LenProperties, ElementOfSeq DEF Sound
<1>2. CASE torn = [ok |-> FALSE, list |-> <<>>]
  <2>1. <<>> \in Seq(Entry) /\ DOMAIN <<>> = {}
    OBVIOUS
  <2>2. QED
    BY <1>2, <2>1 DEF Files, Sound
<1>3. ASSUME NEW k \in 0..Len(list), torn = [ok |-> TRUE, list |-> SubSeq(list, 1, k)]
      PROVE  torn \in Files /\ Sound(torn.list, known)
  <2> DEFINE new == SubSeq(list, 1, k)
  <2>1. new \in Seq(Entry) /\ DOMAIN new = 1..k /\ \A j \in 1..k : new[j] = list[j]
    BY <1>1
  <2> HIDE DEF new
  <2>2. Sound(new, known)
    BY <1>1, <2>1 DEF Sound
  <2>3. torn = [ok |-> TRUE, list |-> new]
    BY <1>3 DEF new
  <2>4. QED
    BY <2>1, <2>2, <2>3 DEF Files
<1>4. ASSUME NEW k \in 1..Len(list), NEW e \in CutEntry(list[k]),
             torn = [ok |-> TRUE, list |-> SubSeq(list, 1, k - 1) \o <<e>>]
      PROVE  torn \in Files /\ Sound(torn.list, known)
  <2> DEFINE head == SubSeq(list, 1, k - 1)
             new == head \o <<e>>
  <2>1. e \in Entry /\ e.tok \in {list[k].tok, NoToken}
    BY <1>1, CutEntryType
  <2>2. head \in Seq(Entry) /\ Len(head) = k - 1 /\ \A j \in 1..(k - 1) : head[j] = list[j]
    BY <1>1
  <2>3. <<e>> \in Seq(Entry) /\ Len(<<e>>) = 1 /\ <<e>>[1] = e
    BY <2>1
  <2> HIDE DEF head
  <2>4. /\ new \in Seq(Entry) /\ Len(new) = k
        /\ \A j \in 1..k : new[j] = IF j <= k - 1 THEN head[j] ELSE <<e>>[j - (k - 1)]
    BY <2>2, <2>3, ConcatProperties
  <2>5. /\ DOMAIN new = 1..k /\ new[k] = e
        /\ \A j \in 1..k : j # k => new[j] = list[j]
    BY <2>2, <2>3, <2>4
  <2>6. torn = [ok |-> TRUE, list |-> new]
    BY <1>4 DEF new, head
  <2> HIDE DEF new
  <2>7. Sound(new, known)
    <3>1. \A j \in DOMAIN new : j \in DOMAIN list /\ new[j].tok \in {list[j].tok, NoToken}
      BY <1>1, <2>1, <2>5
    <3>2. QED
      BY <2>4, <3>1 DEF Sound
  <2>8. QED
    BY <2>4, <2>6, <2>7 DEF Files
<1>5. QED
  BY <1>2, <1>3, <1>4 DEF Torn

-----------------------------------------------------------------------------
(* Steps.                                                                  *)

\* The terms of every token are a pair of flags.
LEMMA TermsType ==
  ASSUME NEW terms \in Offered \union {JobTerms} PROVE terms \in [exp : BOOLEAN, one : BOOLEAN]
<1>1. JobTerms \in [exp : BOOLEAN, one : BOOLEAN]
  BY DEF JobTerms
<1>2. QED
  BY <1>1, OfferedAssumption

\* Generate: a new token is known from now on, and the lists are what they were.
LEMMA CreatedToken ==
  ASSUME StoreTypes, NEW t \in Tokens, NEW n \in Names, NEW terms \in Offered \union {JobTerms},
         Created(t, terms)
  PROVE  /\ t \notin Known /\ t # NoToken /\ Known' = Known \union {t}
         /\ DOMAIN issued' = DOMAIN issued \union {t} /\ issued'[t] = terms
         /\ \A u \in DOMAIN issued : issued'[u] = issued[u]
         /\ NewEntry(t, n, terms) \in Entry /\ NewEntry(t, n, terms).tok = t
         /\ NewEntry(t, n, terms).exp = issued'[t].exp
         /\ NewEntry(t, n, terms).one = issued'[t].one
<1>1. /\ t \notin DOMAIN issued
      /\ issued' = [u \in DOMAIN issued \union {t} |-> IF u = t THEN terms ELSE issued[u]]
  BY DEF Created
<1>2. /\ DOMAIN issued' = DOMAIN issued \union {t} /\ issued'[t] = terms
      /\ \A u \in DOMAIN issued : issued'[u] = issued[u]
  BY <1>1
<1>3. t # NoToken
  BY NoTokenAssumption
<1>4. t \notin Known /\ Known' = Known \union {t}
  BY <1>1, <1>2, <1>3 DEF Known
<1>5. terms.exp \in BOOLEAN /\ terms.one \in BOOLEAN
  BY TermsType
<1>6. NewEntry(t, n, terms) \in Entry /\ NewEntry(t, n, terms).tok = t
      /\ NewEntry(t, n, terms).exp = terms.exp /\ NewEntry(t, n, terms).one = terms.one
  BY <1>5 DEF NewEntry, Entry
<1>7. QED
  BY <1>2, <1>3, <1>4, <1>6

\* A list stays as good as it was while tokens are created.
LEMMA KnownGrows ==
  ASSUME NEW list, NEW known, Sound(list, known), NEW more, known \subseteq more
  PROVE  Sound(list, more)
  BY DEF Sound

\* Its terms as well.
LEMMA TermsStay ==
  ASSUME NEW list, Sound(list, Known), NEW terms, \A u \in DOMAIN issued : terms[u] = issued[u],
         Faithful(list, issued)
  PROVE  Faithful(list, terms)
  BY DEF Sound, Faithful, Known

\* save: the file is a sound list whatever happens; a write that failed is counted; and if
\* no write was ever lost, the author had seen what it replaced.
LEMMA SaveCases ==
  ASSUME lost \in 0..MaxLost, file \in Files, NEW known, NoToken \in known,
         NEW before, NEW after, Sound(after, known), Sound(file.list, known),
         SaveOK(before, after) \/ SaveFails(after)
  PROVE  /\ file' \in Files /\ Sound(file'.list, known) /\ lost' \in 0..MaxLost
         /\ SaveFails(after) => lost' # 0
         /\ lost' = 0 => lost = 0 /\ file'.list = after
         /\ Undamaged' => Undamaged /\ file.ok /\ file.list = before /\ file'.list = after
<1>1. CASE SaveOK(before, after)
  <2>1. /\ file' = [ok |-> TRUE, list |-> after] /\ lost' = lost
        /\ overwritten' = (overwritten \/ file # [ok |-> TRUE, list |-> before])
    BY <1>1 DEF SaveOK
  <2>2. after \in Seq(Entry)
    BY DEF Sound
  <2>3. file' \in Files /\ file'.list = after
    BY <2>1, <2>2 DEF Files
  <2>4. ASSUME ~overwritten' PROVE ~overwritten /\ file.ok /\ file.list = before
    <3>1. ~(overwritten \/ file # [ok |-> TRUE, list |-> before])
      BY <2>1, <2>4, Zenon
    <3>2. file = [ok |-> TRUE, list |-> before]
      BY <3>1, Zenon
    <3>3. file.ok /\ file.list = before
      BY <3>2
    <3>4. QED
      BY <3>1, <3>3, Zenon
  <2>5. SaveFails(after) => lost' # 0
    BY BoundAssumption DEF SaveFails
  <2>6. QED
    BY <2>1, <2>3, <2>4, <2>5 DEF Undamaged
<1>2. CASE SaveFails(after)
  <2>1. lost' \in 0..MaxLost /\ lost' # 0
    BY <1>2, BoundAssumption DEF SaveFails
  <2>2. file' = file \/ file' \in Torn(after)
    BY <1>2 DEF SaveFails
  <2>3. file' \in Files /\ Sound(file'.list, known)
    BY <2>2, TornList
  <2>4. QED
    BY <2>1, <2>3 DEF Undamaged
<1>3. QED
  BY <1>1, <1>2

\* Manager.Add, for the API and for a job.
LEMMA AddStep ==
  ASSUME TokenInv, NEW t \in Tokens, NEW n \in Names, NEW terms \in Offered \union {JobTerms},
         AddToMem(t, n, terms), UNCHANGED <<server, cli, expired, history>>,
         jobs' \subseteq [tok : holders', name : Names]
  PROVE  TokenInv'
<1> DEFINE e == NewEntry(t, n, terms)
<1>1. /\ StoreTypes /\ Created(t, terms) /\ mem' = Append(mem, e)
      /\ SaveOK(mem, mem') \/ SaveFails(mem')
      /\ holders' \subseteq holders \union {t} /\ holders \subseteq holders'
      /\ holders' = holders => SaveFails(mem') \/ t \in holders
  BY DEF TokenInv, AddToMem
<1>2. UNCHANGED <<server, cli, expired, admitted, admittedNow, revoked, revokedNow, cliRevoked,
                  settled>>
  BY DEF history
<1>3. /\ t \notin Known /\ t # NoToken /\ Known' = Known \union {t}
      /\ DOMAIN issued' = DOMAIN issued \union {t} /\ issued'[t] = terms
      /\ \A u \in DOMAIN issued : issued'[u] = issued[u]
      /\ e \in Entry /\ e.tok = t /\ e.exp = issued'[t].exp /\ e.one = issued'[t].one
  BY <1>1, CreatedToken
<1> HIDE DEF e
<1>4. Sound(mem, Known) /\ Sound(file.list, Known) /\ \A p \in CLIs : Sound(cli[p].list, Known)
  BY DEF TokenInv, ListsSound
<1>5. /\ Sound(mem', Known') /\ Toks(mem') = Toks(mem) \union {t}
      /\ Faithful(mem, issued') => Faithful(mem', issued')
      /\ \A gone, let : Shuts(mem, gone, let) /\ t \notin gone \union let => Shuts(mem', gone, let)
  <2>1. /\ Sound(Append(mem, e), Known \union {e.tok})
        /\ Toks(Append(mem, e)) = Toks(mem) \union {e.tok}
        /\ \A law : Faithful(mem, law) /\ e.exp = law[e.tok].exp /\ e.one = law[e.tok].one
                      => Faithful(Append(mem, e), law)
        /\ \A gone, let : Shuts(mem, gone, let) /\ e.tok \notin gone \union let
                            => Shuts(Append(mem, e), gone, let)
    BY <1>3, <1>4, AddedList
  <2>2. QED
    BY <1>1, <1>3, <2>1
<1>6. \A list : Sound(list, Known) =>
        /\ Sound(list, Known')
        /\ Faithful(list, issued) => Faithful(list, issued')
  BY <1>3, KnownGrows, TermsStay
<1>7. /\ file' \in Files /\ Sound(file'.list, Known') /\ lost' \in 0..MaxLost
      /\ SaveFails(mem') => lost' # 0
      /\ lost' = 0 => lost = 0 /\ file'.list = mem'
      /\ Undamaged' => Undamaged /\ file.ok /\ file.list = mem /\ file'.list = mem'
  <2>1. lost \in 0..MaxLost /\ file \in Files /\ NoToken \in Known'
    BY <1>1 DEF StoreTypes, Known
  <2>2. QED
    BY <1>1, <1>4, <1>5, <1>6, <2>1, SaveCases
<1>8. t \notin revoked \union revokedNow \union cliRevoked \union settled \union admitted \union admittedNow
  BY <1>1, <1>3 DEF StoreTypes, Known
<1>9. StoreTypes'
  <2>1. mem' \in Seq(Entry)
    BY <1>5 DEF Sound
  <2>2. /\ DOMAIN issued' \subseteq Tokens
        /\ \A u \in DOMAIN issued' : issued'[u] \in Offered \union {JobTerms}
    BY <1>1, <1>3 DEF StoreTypes
  <2>3. holders' \union expired' \union admitted' \union admittedNow' \subseteq DOMAIN issued'
    BY <1>1, <1>2, <1>3 DEF StoreTypes
  <2>4. revoked' \union revokedNow' \union cliRevoked' \subseteq Known' /\ settled' \subseteq cliRevoked'
    BY <1>1, <1>2, <1>3 DEF StoreTypes
  <2>5. server' \in {"up", "down"} /\ cli' \in [CLIs -> [on : BOOLEAN, list : Seq(Entry)]]
    BY <1>1, <1>2 DEF StoreTypes
  <2>6. QED
    BY <1>7, <2>1, <2>2, <2>3, <2>4, <2>5 DEF StoreTypes, Known
<1>10. ListsSound'
  BY <1>2, <1>4, <1>5, <1>6, <1>7 DEF ListsSound
<1>11. ListsFaithful'
  <2> SUFFICES ASSUME lost' = 0
               PROVE  /\ Faithful(mem', issued') /\ Faithful(file'.list, issued')
                      /\ \A p \in CLIs : Faithful(cli'[p].list, issued')
    BY DEF ListsFaithful
  <2>1. Faithful(mem, issued) /\ \A p \in CLIs : Faithful(cli[p].list, issued)
    BY <1>7 DEF TokenInv, ListsFaithful
  <2>2. QED
    BY <1>2, <1>4, <1>5, <1>6, <1>7, <2>1
<1>12. RunInv'
  BY <1>2, <1>5, <1>8 DEF TokenInv, RunInv
<1>13. StayInv'
  <2> SUFFICES ASSUME Undamaged'
               PROVE  /\ Shuts(mem', revoked' \union settled', admitted')
                      /\ Shuts(file'.list, revoked' \union cliRevoked', admitted')
    BY DEF StayInv
  <2>1. /\ Shuts(mem, revoked \union settled, admitted)
        /\ Shuts(mem, revoked \union cliRevoked, admitted)
    BY <1>7 DEF TokenInv, StayInv
  <2>2. QED
    BY <1>2, <1>5, <1>7, <1>8, <2>1
<1>14. TokensKept'
  <2> SUFFICES ASSUME Undamaged', file'.ok
               PROVE  holders' \ (revoked' \union cliRevoked') \subseteq Toks(file'.list)
    BY DEF TokensKept
  <2>1. holders \ (revoked \union cliRevoked) \subseteq Toks(mem)
    BY <1>7 DEF TokenInv, TokensKept
  <2>2. QED
    BY <1>1, <1>2, <1>5, <1>7, <2>1
<1>15. QED
  BY <1>9, <1>10, <1>11, <1>12, <1>13, <1>14 DEF TokenInv

\* A list that shuts out more shuts out less.
LEMMA ShutsLess ==
  ASSUME NEW list, NEW gone, NEW let, Shuts(list, gone, let), NEW less, less \subseteq gone
  PROVE  Shuts(list, less, let)
  BY DEF Shuts

\* The empty list.
LEMMA EmptyList ==
  /\ <<>> \in Seq(Entry)
  /\ \A known : Sound(<<>>, known)
  /\ \A terms : Faithful(<<>>, terms)
  /\ \A gone, let : Shuts(<<>>, gone, let)
<1>1. <<>> \in Seq(Entry) /\ DOMAIN <<>> = {}
  OBVIOUS
<1>2. QED
  BY <1>1 DEF Sound, Faithful, Shuts

\* Validate.
LEMMA ValidateStep ==
  ASSUME TokenInv, NEW t \in Tokens, Validate(t) PROVE TokenInv'
<1> DEFINE k == Matching(t)
<1>1. /\ StoreTypes /\ t \in holders /\ k # 0
      /\ UNCHANGED <<server, cli, issued, holders, expired, jobs, revoked, revokedNow, cliRevoked,
                     settled>>
      /\ admitted' = admitted \union {t} /\ admittedNow' = admittedNow \union {t}
  BY DEF TokenInv, Validate, Valid, LetIn
<1>2. t \in DOMAIN issued /\ Known' = Known /\ NoToken \in Known
  BY <1>1 DEF StoreTypes, Known
<1>3. k \in DOMAIN mem /\ mem[k].tok = t
  BY <1>1, MatchFound DEF StoreTypes
<1>4. Sound(mem, Known) /\ Sound(file.list, Known) /\ \A p \in CLIs : Sound(cli[p].list, Known)
  BY DEF TokenInv, ListsSound
<1>5. CASE mem[k].one
  <2>1. /\ mem' = [mem EXCEPT ![k].used = TRUE]
        /\ SaveOK(mem, mem') \/ SaveFails(mem')
    BY <1>5 DEF Validate, MarkUsed
  <2> HIDE DEF k
  <2>2. /\ Sound(mem', Known) /\ Toks(mem') = Toks(mem)
        /\ Faithful(mem, issued) => Faithful(mem', issued)
        /\ \A gone, let : Shuts(mem, gone, let) => Shuts(mem', gone, let \union {t})
    BY <1>3, <1>4, <2>1, UsedList
  <2>3. /\ file' \in Files /\ Sound(file'.list, Known) /\ lost' \in 0..MaxLost
        /\ lost' = 0 => lost = 0 /\ file'.list = mem'
        /\ Undamaged' => Undamaged /\ file.ok /\ file.list = mem /\ file'.list = mem'
    <3>1. lost \in 0..MaxLost /\ file \in Files
      BY <1>1 DEF StoreTypes
    <3>2. QED
      BY <1>2, <1>4, <2>1, <2>2, <3>1, SaveCases
  <2>4. StoreTypes'
    <3>1. mem' \in Seq(Entry)
      BY <2>2 DEF Sound
    <3>2. QED
      BY <1>1, <1>2, <2>3, <3>1 DEF StoreTypes
  <2>5. ListsSound'
    BY <1>1, <1>2, <1>4, <2>2, <2>3 DEF ListsSound
  <2>6. ListsFaithful'
    BY <1>1, <2>2, <2>3 DEF TokenInv, ListsFaithful
  <2>7. RunInv'
    BY <1>1, <2>2 DEF TokenInv, RunInv
  <2>8. StayInv'
    BY <1>1, <2>2, <2>3 DEF TokenInv, StayInv
  <2>9. TokensKept'
    BY <1>1, <2>2, <2>3 DEF TokenInv, TokensKept
  <2>10. QED
    BY <2>4, <2>5, <2>6, <2>7, <2>8, <2>9 DEF TokenInv
<1>6. CASE ~mem[k].one
  <2>1. UNCHANGED <<mem, file, lost, overwritten>>
    BY <1>6 DEF Validate
  <2> HIDE DEF k
  <2>2. ASSUME NEW list, NEW gone, NEW let, Shuts(list, gone, let),
               \A j \in DOMAIN list : list[j].tok = t => ~list[j].one
        PROVE  Shuts(list, gone, let \union {t})
    BY <2>2 DEF Shuts
  <2>3. t # NoToken
    BY NoTokenAssumption
  <2>4. \A j \in DOMAIN mem : mem[j].tok = t => ~mem[j].one
    BY <1>3, <1>4, <1>6, <2>3 DEF Sound
  <2>5. lost = 0 => \A j \in DOMAIN file.list : file.list[j].tok = t => ~file.list[j].one
    <3> SUFFICES ASSUME lost = 0, NEW j \in DOMAIN file.list, file.list[j].tok = t
                 PROVE  ~file.list[j].one
      OBVIOUS
    <3>1. Faithful(mem, issued) /\ Faithful(file.list, issued)
      BY DEF TokenInv, ListsFaithful
    <3>2. mem[k].one = issued[t].one
      BY <1>3, <2>3, <3>1 DEF Faithful
    <3>3. file.list[j].one = issued[t].one
      BY <2>3, <3>1 DEF Faithful
    <3>4. QED
      BY <1>6, <3>2, <3>3, Zenon
  <2>6. StoreTypes'
    BY <1>1, <1>2, <2>1 DEF StoreTypes
  <2>7. ListsSound' /\ ListsFaithful' /\ TokensKept'
    BY <1>1, <1>2, <2>1 DEF TokenInv, ListsSound, ListsFaithful, TokensKept, Undamaged
  <2>8. RunInv'
    BY <1>1, <2>1, <2>2, <2>4 DEF TokenInv, RunInv
  <2>9. StayInv'
    BY <1>1, <2>1, <2>2, <2>4, <2>5 DEF TokenInv, StayInv, Undamaged
  <2>10. QED
    BY <2>6, <2>7, <2>8, <2>9 DEF TokenInv
<1>7. QED
  BY <1>5, <1>6

\* Manager.Revoke, for the API and for a job.
LEMMA RevokeStep ==
  ASSUME TokenInv, NEW n \in Names, RevokeInMem(n), jobs' \subseteq jobs PROVE TokenInv'
<1> DEFINE k == FirstNamed(mem, n)
           t == mem[k].tok
<1>1. /\ StoreTypes /\ k # 0 /\ mem' = RemoveAt(mem, k)
      /\ UNCHANGED <<server, cli, issued, holders, expired, admitted, admittedNow, cliRevoked,
                     settled>>
      /\ SaveOK(mem, mem') \/ SaveFails(mem')
      /\ revoked \subseteq revoked' /\ revoked' \subseteq revoked \union {t}
      /\ revokedNow' \subseteq revokedNow \union {t}
      /\ SaveFails(mem') \/ t \in revoked'
  BY DEF TokenInv, RevokeInMem
<1>2. k \in DOMAIN mem
  BY <1>1, NamedFound DEF StoreTypes
<1>3. Sound(mem, Known) /\ Sound(file.list, Known) /\ \A p \in CLIs : Sound(cli[p].list, Known)
  BY DEF TokenInv, ListsSound
<1>4. Known' = Known /\ NoToken \in Known /\ t \in Known
  BY <1>1, <1>2, <1>3 DEF Known, Sound
<1>5. /\ Sound(mem', Known) /\ Toks(mem) \ {t} \subseteq Toks(mem')
      /\ Faithful(mem, issued) => Faithful(mem', issued)
      /\ \A gone, let : Shuts(mem, gone, let) => Shuts(mem', gone \union {t}, let)
  BY <1>1, <1>2, <1>3, RemovedList
<1> HIDE DEF k, t
<1>6. /\ file' \in Files /\ Sound(file'.list, Known) /\ lost' \in 0..MaxLost
      /\ SaveFails(mem') => lost' # 0
      /\ lost' = 0 => lost = 0 /\ file'.list = mem'
      /\ Undamaged' => Undamaged /\ file.ok /\ file.list = mem /\ file'.list = mem'
  <2>1. lost \in 0..MaxLost /\ file \in Files
    BY <1>1 DEF StoreTypes
  <2>2. QED
    BY <1>1, <1>3, <1>4, <1>5, <2>1, SaveCases
<1>7. StoreTypes'
  <2>1. mem' \in Seq(Entry)
    BY <1>5 DEF Sound
  <2>2. revoked' \union revokedNow' \union cliRevoked' \subseteq Known'
    BY <1>1, <1>4 DEF StoreTypes
  <2>3. QED
    BY <1>1, <1>4, <1>6, <2>1, <2>2 DEF StoreTypes
<1>8. ListsSound'
  BY <1>1, <1>3, <1>4, <1>5, <1>6 DEF ListsSound
<1>9. ListsFaithful'
  BY <1>1, <1>5, <1>6 DEF TokenInv, ListsFaithful
<1>10. RunInv'
  <2>1. Shuts(mem', revokedNow \union {t}, admittedNow)
    BY <1>5 DEF TokenInv, RunInv
  <2>2. QED
    BY <1>1, <2>1, ShutsLess DEF RunInv
<1>11. StayInv'
  <2> SUFFICES ASSUME Undamaged'
               PROVE  /\ Shuts(mem', revoked' \union settled', admitted')
                      /\ Shuts(mem', revoked' \union cliRevoked', admitted')
    BY <1>6 DEF StayInv
  <2>1. /\ Shuts(mem', (revoked \union settled) \union {t}, admitted)
        /\ Shuts(mem', (revoked \union cliRevoked) \union {t}, admitted)
    BY <1>5, <1>6 DEF TokenInv, StayInv
  <2>2. /\ revoked' \union settled' \subseteq (revoked \union settled) \union {t}
        /\ revoked' \union cliRevoked' \subseteq (revoked \union cliRevoked) \union {t}
    BY <1>1
  <2>3. QED
    BY <1>1, <2>1, <2>2, ShutsLess
<1>12. TokensKept'
  <2> SUFFICES ASSUME Undamaged'
               PROVE  holders' \ (revoked' \union cliRevoked') \subseteq Toks(file'.list)
    BY DEF TokensKept
  <2>1. holders \ (revoked \union cliRevoked) \subseteq Toks(mem)
    BY <1>6 DEF TokenInv, TokensKept
  <2>2. t \in revoked'
    BY <1>1, <1>6 DEF Undamaged
  <2>3. QED
    BY <1>1, <1>5, <1>6, <2>1, <2>2
<1>13. QED
  BY <1>7, <1>8, <1>9, <1>10, <1>11, <1>12 DEF TokenInv

\* A CLI process that has finished.
LEMMA CLIEnds ==
  ASSUME StoreTypes, NEW p \in CLIs, CLIDone(p)
  PROVE  /\ cli[p].list \in Seq(Entry)
         /\ cli' \in [CLIs -> [on : BOOLEAN, list : Seq(Entry)]]
         /\ cli'[p].list = <<>>
         /\ \A q \in CLIs : q # p => cli'[q] = cli[q]
<1> DEFINE off == [on |-> FALSE, list |-> <<>>]
<1>1. cli' = [cli EXCEPT ![p] = off]
  BY DEF CLIDone
<1>2. off \in [on : BOOLEAN, list : Seq(Entry)] /\ off.list = <<>>
  BY EmptyList
<1> HIDE DEF off
<1>3. QED
  BY <1>1, <1>2 DEF StoreTypes

\* auth-vpn server tokens add.
LEMMA CLIAddStep ==
  ASSUME TokenInv, NEW p \in CLIs, NEW t \in Tokens, NEW n \in Names, NEW terms \in Offered,
         CLIAdd(p, t, n, terms)
  PROVE  TokenInv'
<1> DEFINE e == NewEntry(t, n, terms)
           list == cli[p].list
           after == Append(list, e)
<1>1. /\ StoreTypes /\ CLIDone(p) /\ Created(t, terms)
      /\ SaveOK(list, after) \/ SaveFails(after)
      /\ holders' \subseteq holders \union {t} /\ holders \subseteq holders'
      /\ holders' = holders => SaveFails(after) \/ t \in holders
      /\ UNCHANGED <<mem, server, expired, jobs, admitted, admittedNow, revoked, revokedNow,
                     cliRevoked, settled>>
  BY DEF TokenInv, CLIAdd, history
<1>2. /\ cli' \in [CLIs -> [on : BOOLEAN, list : Seq(Entry)]]
      /\ cli'[p].list = <<>> /\ \A q \in CLIs : q # p => cli'[q] = cli[q]
  BY <1>1, CLIEnds
<1>3. /\ t \notin Known /\ t # NoToken /\ Known' = Known \union {t}
      /\ DOMAIN issued' = DOMAIN issued \union {t} /\ issued'[t] = terms
      /\ \A u \in DOMAIN issued : issued'[u] = issued[u]
      /\ e \in Entry /\ e.tok = t /\ e.exp = issued'[t].exp /\ e.one = issued'[t].one
  BY <1>1, CreatedToken
<1>4. Sound(mem, Known) /\ Sound(file.list, Known) /\ \A q \in CLIs : Sound(cli[q].list, Known)
  BY DEF TokenInv, ListsSound
<1>5. /\ Sound(after, Known') /\ Toks(after) = Toks(list) \union {t}
      /\ Faithful(list, issued') => Faithful(after, issued')
      /\ \A gone, let : Shuts(list, gone, let) /\ t \notin gone \union let => Shuts(after, gone, let)
  <2>1. Sound(list, Known)
    BY <1>4
  <2> HIDE DEF e, list
  <2>2. /\ Sound(Append(list, e), Known \union {e.tok})
        /\ Toks(Append(list, e)) = Toks(list) \union {e.tok}
        /\ \A law : Faithful(list, law) /\ e.exp = law[e.tok].exp /\ e.one = law[e.tok].one
                      => Faithful(Append(list, e), law)
        /\ \A gone, let : Shuts(list, gone, let) /\ e.tok \notin gone \union let
                            => Shuts(Append(list, e), gone, let)
    BY <1>3, <2>1, AddedList
  <2>3. QED
    BY <1>3, <2>2
<1> HIDE DEF after, e
<1>6. \A l : Sound(l, Known) => /\ Sound(l, Known')
                                /\ Faithful(l, issued) => Faithful(l, issued')
  BY <1>3, KnownGrows, TermsStay
<1>7. /\ file' \in Files /\ Sound(file'.list, Known') /\ lost' \in 0..MaxLost
      /\ SaveFails(after) => lost' # 0
      /\ lost' = 0 => lost = 0 /\ file'.list = after
      /\ Undamaged' => Undamaged /\ file.ok /\ file.list = list /\ file'.list = after
  <2>1. lost \in 0..MaxLost /\ file \in Files /\ NoToken \in Known'
    BY <1>1 DEF StoreTypes, Known
  <2>2. QED
    BY <1>1, <1>4, <1>5, <1>6, <2>1, SaveCases
<1>8. t \notin revoked \union cliRevoked \union admitted
  BY <1>1, <1>3 DEF StoreTypes, Known
<1>9. StoreTypes'
  <2>1. /\ DOMAIN issued' \subseteq Tokens
        /\ \A u \in DOMAIN issued' : issued'[u] \in Offered \union {JobTerms}
    BY <1>1, <1>3 DEF StoreTypes
  <2>2. holders' \union expired' \union admitted' \union admittedNow' \subseteq DOMAIN issued'
    BY <1>1, <1>3 DEF StoreTypes
  <2>3. revoked' \union revokedNow' \union cliRevoked' \subseteq Known' /\ settled' \subseteq cliRevoked'
    BY <1>1, <1>3 DEF StoreTypes
  <2>4. jobs' \subseteq [tok : holders', name : Names]
    BY <1>1 DEF StoreTypes
  <2>5. QED
    BY <1>1, <1>2, <1>7, <2>1, <2>2, <2>3, <2>4 DEF StoreTypes
<1>10. ListsSound'
  BY <1>1, <1>2, <1>4, <1>6, <1>7, EmptyList DEF ListsSound
<1>11. ListsFaithful'
  <2> SUFFICES ASSUME lost' = 0
               PROVE  /\ Faithful(mem', issued') /\ Faithful(file'.list, issued')
                      /\ \A q \in CLIs : Faithful(cli'[q].list, issued')
    BY DEF ListsFaithful
  <2>1. Faithful(mem, issued) /\ \A q \in CLIs : Faithful(cli[q].list, issued)
    BY <1>7 DEF TokenInv, ListsFaithful
  <2>2. Faithful(list, issued')
    BY <1>4, <1>6, <2>1
  <2>3. QED
    BY <1>1, <1>2, <1>4, <1>5, <1>6, <1>7, <2>1, <2>2, EmptyList
<1>12. RunInv'
  BY <1>1 DEF TokenInv, RunInv
<1> HIDE DEF list
<1>13. StayInv'
  <2> SUFFICES ASSUME Undamaged'
               PROVE  /\ Shuts(mem', revoked' \union settled', admitted')
                      /\ Shuts(after, revoked' \union cliRevoked', admitted')
    BY <1>7 DEF StayInv
  <2>1. /\ Shuts(mem, revoked \union settled, admitted)
        /\ Shuts(list, revoked \union cliRevoked, admitted)
    BY <1>7 DEF TokenInv, StayInv
  <2>2. QED
    BY <1>1, <1>5, <1>8, <2>1
<1>14. TokensKept'
  <2> SUFFICES ASSUME Undamaged'
               PROVE  holders' \ (revoked' \union cliRevoked') \subseteq Toks(file'.list)
    BY DEF TokensKept
  <2>1. holders \ (revoked \union cliRevoked) \subseteq Toks(list)
    BY <1>7 DEF TokenInv, TokensKept
  <2>2. QED
    BY <1>1, <1>5, <1>7, <2>1
<1>15. QED
  BY <1>9, <1>10, <1>11, <1>12, <1>13, <1>14 DEF TokenInv

\* auth-vpn server tokens revoke.
LEMMA CLIRevokeStep ==
  ASSUME TokenInv, NEW p \in CLIs, NEW n \in Names, CLIRevoke(p, n) PROVE TokenInv'
<1> DEFINE list == cli[p].list
           k == FirstNamed(list, n)
           t == list[k].tok
           after == RemoveAt(list, k)
<1>1. /\ StoreTypes /\ CLIDone(p) /\ k # 0
      /\ SaveOK(list, after) \/ SaveFails(after)
      /\ cliRevoked \subseteq cliRevoked' /\ cliRevoked' \subseteq cliRevoked \union {t}
      /\ SaveFails(after) \/ t \in cliRevoked'
      /\ UNCHANGED <<mem, server, issued, holders, expired, jobs, admitted, admittedNow, revoked,
                     revokedNow, settled>>
  BY DEF TokenInv, CLIRevoke
<1>2. /\ list \in Seq(Entry) /\ cli' \in [CLIs -> [on : BOOLEAN, list : Seq(Entry)]]
      /\ cli'[p].list = <<>> /\ \A q \in CLIs : q # p => cli'[q] = cli[q]
  BY <1>1, CLIEnds
<1>3. k \in DOMAIN list
  BY <1>1, <1>2, NamedFound
<1>4. Sound(mem, Known) /\ Sound(file.list, Known) /\ \A q \in CLIs : Sound(cli[q].list, Known)
  BY DEF TokenInv, ListsSound
<1>5. Sound(list, Known)
  BY <1>4
<1> HIDE DEF list, k
<1>6. /\ Sound(after, Known) /\ Toks(list) \ {t} \subseteq Toks(after)
      /\ Faithful(list, issued) => Faithful(after, issued)
      /\ \A gone, let : Shuts(list, gone, let) => Shuts(after, gone \union {t}, let)
  BY <1>3, <1>5, RemovedList
<1>7. Known' = Known /\ NoToken \in Known /\ t \in Known
  BY <1>1, <1>3, <1>5 DEF Known, Sound
<1> HIDE DEF t, after
<1>8. /\ file' \in Files /\ Sound(file'.list, Known) /\ lost' \in 0..MaxLost
      /\ SaveFails(after) => lost' # 0
      /\ lost' = 0 => lost = 0 /\ file'.list = after
      /\ Undamaged' => Undamaged /\ file.ok /\ file.list = list /\ file'.list = after
  <2>1. lost \in 0..MaxLost /\ file \in Files
    BY <1>1 DEF StoreTypes
  <2>2. QED
    BY <1>1, <1>4, <1>6, <1>7, <2>1, SaveCases
<1>9. StoreTypes'
  <2>1. revoked' \union revokedNow' \union cliRevoked' \subseteq Known' /\ settled' \subseteq cliRevoked'
    BY <1>1, <1>7 DEF StoreTypes
  <2>2. QED
    BY <1>1, <1>2, <1>8, <2>1 DEF StoreTypes
<1>10. ListsSound'
  BY <1>1, <1>2, <1>4, <1>7, <1>8, EmptyList DEF ListsSound
<1>11. ListsFaithful'
  <2> SUFFICES ASSUME lost' = 0
               PROVE  /\ Faithful(mem, issued) /\ Faithful(after, issued)
                      /\ \A q \in CLIs : Faithful(cli'[q].list, issued)
    BY <1>1, <1>8 DEF ListsFaithful
  <2>1. Faithful(mem, issued) /\ \A q \in CLIs : Faithful(cli[q].list, issued)
    BY <1>8 DEF TokenInv, ListsFaithful
  <2>2. QED
    BY <1>2, <1>6, <2>1, EmptyList DEF list
<1>12. RunInv'
  BY <1>1 DEF TokenInv, RunInv
<1>13. StayInv'
  <2> SUFFICES ASSUME Undamaged'
               PROVE  /\ Shuts(mem', revoked' \union settled', admitted')
                      /\ Shuts(after, revoked' \union cliRevoked', admitted')
    BY <1>8 DEF StayInv
  <2>1. /\ Shuts(mem, revoked \union settled, admitted)
        /\ Shuts(after, (revoked \union cliRevoked) \union {t}, admitted)
    BY <1>6, <1>8 DEF TokenInv, StayInv
  <2>2. revoked' \union cliRevoked' \subseteq (revoked \union cliRevoked) \union {t}
    BY <1>1
  <2>3. QED
    BY <1>1, <2>1, <2>2, ShutsLess
<1>14. TokensKept'
  <2> SUFFICES ASSUME Undamaged'
               PROVE  holders' \ (revoked' \union cliRevoked') \subseteq Toks(file'.list)
    BY DEF TokensKept
  <2>1. holders \ (revoked \union cliRevoked) \subseteq Toks(list)
    BY <1>8 DEF TokenInv, TokensKept
  <2>2. t \in cliRevoked'
    BY <1>1, <1>8 DEF Undamaged
  <2>3. QED
    BY <1>1, <1>6, <1>8, <2>1, <2>2
<1>15. QED
  BY <1>9, <1>10, <1>11, <1>12, <1>13, <1>14 DEF TokenInv

\* What an operation may be saving when the process dies is sound.
LEMMA UnderwaySound ==
  ASSUME StoreTypes, Sound(mem, Known), NEW list \in Underway PROVE Sound(list, Known)
<1>1. ASSUME NEW k \in DOMAIN mem, list = [mem EXCEPT ![k].used = TRUE] PROVE Sound(list, Known)
  BY <1>1, UsedList
<1>2. ASSUME NEW k \in DOMAIN mem, list = RemoveAt(mem, k) PROVE Sound(list, Known)
  BY <1>2, RemovedList
<1>3. ASSUME NEW n \in Names, list = Append(mem, NewEntry(NoToken, n, JobTerms))
      PROVE  Sound(list, Known)
  <2> DEFINE e == NewEntry(NoToken, n, JobTerms)
  <2>1. e \in Entry /\ e.tok = NoToken
    BY DEF NewEntry, JobTerms, Entry
  <2> HIDE DEF e
  <2>2. mem \in Seq(Entry) /\ list = Append(mem, e)
    BY <1>3 DEF StoreTypes, e
  <2>3. /\ list \in Seq(Entry)
        /\ \A k \in DOMAIN list : k \in DOMAIN mem \/ list[k] = e
        /\ \A k \in DOMAIN mem : list[k] = mem[k]
    BY <2>1, <2>2, AppendEntry
  <2>4. NoToken \in Known
    BY DEF Known
  <2>5. QED
    BY <2>1, <2>3, <2>4 DEF Sound
<1>4. QED
  BY <1>1, <1>2, <1>3 DEF Underway

\* The server stops.
LEMMA CrashStep == ASSUME TokenInv, Crash PROVE TokenInv'
<1>1. /\ StoreTypes /\ server' = "down" /\ mem' = <<>>
      /\ \/ UNCHANGED <<file, lost, overwritten>>
         \/ \E list \in Underway : SaveFails(list)
      /\ UNCHANGED <<cli, issued, holders, expired, jobs, admitted, admittedNow, revoked,
                     revokedNow, cliRevoked, settled>>
  BY DEF TokenInv, Crash, history
<1>2. Sound(mem, Known) /\ Sound(file.list, Known) /\ \A q \in CLIs : Sound(cli[q].list, Known)
  BY DEF TokenInv, ListsSound
<1>3. Known' = Known /\ NoToken \in Known
  BY <1>1 DEF Known
<1>4. CASE UNCHANGED <<file, lost, overwritten>>
  <2>1. StoreTypes'
    BY <1>1, <1>3, <1>4, EmptyList DEF StoreTypes
  <2>2. ListsSound' /\ ListsFaithful' /\ RunInv'
    BY <1>1, <1>2, <1>3, <1>4, EmptyList DEF TokenInv, ListsSound, ListsFaithful, RunInv
  <2>3. StayInv' /\ TokensKept'
    BY <1>1, <1>4, EmptyList DEF TokenInv, StayInv, TokensKept, Undamaged
  <2>4. QED
    BY <2>1, <2>2, <2>3 DEF TokenInv
<1>5. ASSUME NEW list \in Underway, SaveFails(list) PROVE TokenInv'
  <2>1. Sound(list, Known)
    BY <1>1, <1>2, UnderwaySound
  <2>2. lost' \in 0..MaxLost /\ lost' # 0 /\ (file' = file \/ file' \in Torn(list))
    BY <1>1, <1>5, BoundAssumption DEF SaveFails, StoreTypes
  <2>3. file' \in Files /\ Sound(file'.list, Known)
    BY <1>1, <1>2, <1>3, <2>1, <2>2, TornList DEF StoreTypes
  <2>4. StoreTypes'
    BY <1>1, <1>3, <2>2, <2>3, EmptyList DEF StoreTypes
  <2>5. ListsSound' /\ RunInv'
    BY <1>1, <1>2, <1>3, <2>3, EmptyList DEF ListsSound, RunInv
  <2>6. ListsFaithful' /\ StayInv' /\ TokensKept'
    BY <2>2 DEF ListsFaithful, StayInv, TokensKept, Undamaged
  <2>7. QED
    BY <2>4, <2>5, <2>6 DEF TokenInv
<1>6. QED
  BY <1>1, <1>4, <1>5

\* The server starts on the file it finds.
LEMMA RestartStep == ASSUME TokenInv, Restart PROVE TokenInv'
<1>1. /\ StoreTypes /\ server' = "up" /\ mem' = file.list
      /\ admittedNow' = {} /\ revokedNow' = {} /\ settled' = cliRevoked
      /\ UNCHANGED <<file, cli, issued, holders, expired, jobs, admitted, revoked, cliRevoked, lost,
                     overwritten>>
  BY DEF TokenInv, Restart
<1>2. Known' = Known
  BY <1>1 DEF Known
<1>3. file.list \in Seq(Entry)
  BY <1>1 DEF StoreTypes, Files
<1>4. StoreTypes'
  BY <1>1, <1>2, <1>3 DEF StoreTypes
<1>5. ListsSound' /\ ListsFaithful' /\ TokensKept'
  BY <1>1, <1>2 DEF TokenInv, ListsSound, ListsFaithful, TokensKept, Undamaged
<1>6. RunInv'
  BY <1>1 DEF RunInv, Shuts
<1>7. StayInv'
  BY <1>1 DEF TokenInv, StayInv, Undamaged
<1>8. QED
  BY <1>4, <1>5, <1>6, <1>7 DEF TokenInv

\* Every action keeps the invariant.
LEMMA TokenStep == TokenInv /\ [Next]_vars => TokenInv'
<1> SUFFICES ASSUME TokenInv, [Next]_vars PROVE TokenInv'
  OBVIOUS
<1>a. StoreTypes
  BY DEF TokenInv
<1>1. ASSUME NEW t \in Tokens, NEW n \in Names, NEW terms \in Offered, Add(t, n, terms)
      PROVE  TokenInv'
  <2>1. /\ AddToMem(t, n, terms) /\ UNCHANGED <<server, cli, expired, history>>
        /\ jobs' = jobs /\ holders \subseteq holders'
    BY <1>1 DEF Add, AddToMem
  <2>2. jobs' \subseteq [tok : holders', name : Names]
    BY <1>a, <2>1 DEF StoreTypes
  <2>3. QED
    BY <2>1, <2>2, AddStep
<1>2. ASSUME NEW t \in Tokens, NEW n \in Names, JobStart(t, n) PROVE TokenInv'
  <2>1. /\ AddToMem(t, n, JobTerms) /\ UNCHANGED <<server, cli, expired, history>>
        /\ jobs' = (IF t \in holders' THEN jobs \union {[tok |-> t, name |-> n]} ELSE jobs)
        /\ holders \subseteq holders'
    BY <1>2 DEF JobStart, AddToMem
  <2>2. jobs' \subseteq [tok : holders', name : Names]
    BY <1>a, <2>1 DEF StoreTypes
  <2>3. QED
    BY <2>1, <2>2, AddStep
<1>3. ASSUME NEW t \in Tokens, Validate(t) PROVE TokenInv'
  BY <1>3, ValidateStep
<1>4. ASSUME NEW p \in CLIs, NEW t \in Tokens, NEW n \in Names, NEW terms \in Offered,
             CLIAdd(p, t, n, terms)
      PROVE  TokenInv'
  BY <1>4, CLIAddStep
<1>5. ASSUME NEW n \in Names, Revoke(n) PROVE TokenInv'
  BY <1>5, RevokeStep DEF Revoke
<1>6. ASSUME NEW p \in CLIs, NEW n \in Names, CLIRevoke(p, n) PROVE TokenInv'
  BY <1>6, CLIRevokeStep
<1>7. ASSUME NEW j \in jobs, JobEnd(j) PROVE TokenInv'
  <2>1. j.name \in Names
    BY <1>a DEF StoreTypes
  <2>2. RevokeInMem(j.name) /\ jobs' \subseteq jobs
    BY <1>7 DEF JobEnd
  <2>3. QED
    BY <2>1, <2>2, RevokeStep
<1>8. ASSUME UNCHANGED <<mem, file, server, issued, holders, admitted, admittedNow, revoked,
                         revokedNow, cliRevoked, settled, lost, overwritten>>,
             expired' \subseteq DOMAIN issued, jobs' \subseteq jobs,
             cli' \in [CLIs -> [on : BOOLEAN, list : Seq(Entry)]],
             \A p \in CLIs : cli'[p].list \in {cli[p].list, file.list, <<>>}
      PROVE  TokenInv'
  <2>1. Known' = Known
    BY <1>8 DEF Known
  <2>2. StoreTypes'
    BY <1>8, <1>a, <2>1 DEF StoreTypes
  <2>3. \A p \in CLIs : Sound(cli'[p].list, Known)
    BY <1>8, EmptyList DEF TokenInv, ListsSound
  <2>4. lost = 0 => \A p \in CLIs : Faithful(cli'[p].list, issued)
    BY <1>8, EmptyList DEF TokenInv, ListsFaithful
  <2>5. ListsSound' /\ ListsFaithful'
    BY <1>8, <2>1, <2>3, <2>4 DEF TokenInv, ListsSound, ListsFaithful
  <2>6. RunInv' /\ StayInv' /\ TokensKept'
    BY <1>8 DEF TokenInv, RunInv, StayInv, TokensKept, Undamaged
  <2>7. QED
    BY <2>2, <2>5, <2>6 DEF TokenInv
<1>9. ASSUME NEW t \in Tokens, Expire(t) PROVE TokenInv'
  BY <1>8, <1>9, <1>a DEF Expire, StoreTypes, history
<1>10. ASSUME NEW p \in CLIs, CLILoad(p) PROVE TokenInv'
  <2> DEFINE on == [on |-> TRUE, list |-> file.list]
  <2>1. /\ cli' = [cli EXCEPT ![p] = on]
        /\ UNCHANGED <<mem, file, server, issued, holders, expired, jobs, admitted, admittedNow,
                       revoked, revokedNow, cliRevoked, settled, lost, overwritten>>
    BY <1>10 DEF CLILoad, history
  <2>2. on \in [on : BOOLEAN, list : Seq(Entry)] /\ on.list = file.list
    BY <1>a DEF StoreTypes, Files
  <2> HIDE DEF on
  <2>3. /\ cli' \in [CLIs -> [on : BOOLEAN, list : Seq(Entry)]]
        /\ \A q \in CLIs : cli'[q].list \in {cli[q].list, file.list, <<>>}
    BY <1>a, <2>1, <2>2 DEF StoreTypes
  <2>4. QED
    BY <1>8, <1>a, <2>1, <2>3 DEF StoreTypes
<1>11. ASSUME NEW p \in CLIs, NEW n \in Names, CLIRevokeFails(p, n) PROVE TokenInv'
  <2>1. /\ CLIDone(p)
        /\ UNCHANGED <<mem, file, server, issued, holders, expired, jobs, admitted, admittedNow,
                       revoked, revokedNow, cliRevoked, settled, lost, overwritten>>
    BY <1>11 DEF CLIRevokeFails, history
  <2>2. /\ cli' \in [CLIs -> [on : BOOLEAN, list : Seq(Entry)]]
        /\ \A q \in CLIs : cli'[q].list \in {cli[q].list, file.list, <<>>}
    BY <1>a, <2>1, CLIEnds
  <2>3. QED
    BY <1>8, <1>a, <2>1, <2>2 DEF StoreTypes
<1>12. ASSUME NEW j \in jobs, JobLost(j) PROVE TokenInv'
  BY <1>8, <1>12, <1>a DEF JobLost, StoreTypes, history
<1>13. CASE UNCHANGED vars
  BY <1>8, <1>13, <1>a DEF vars, StoreTypes, history
<1>14. QED
  BY <1>1, <1>2, <1>3, <1>4, <1>5, <1>6, <1>7, <1>9, <1>10, <1>11, <1>12, <1>13, CrashStep,
     RestartStep DEF Next

\* The invariant holds in every reachable state.
LEMMA TokenInvAlways == Spec => []TokenInv
<1>1. Init => TokenInv
  <2> SUFFICES ASSUME Init PROVE TokenInv
    OBVIOUS
  <2>1. /\ mem = <<>> /\ file = [ok |-> TRUE, list |-> <<>>] /\ server = "up"
        /\ cli = [p \in CLIs |-> [on |-> FALSE, list |-> <<>>]] /\ issued = <<>>
        /\ holders = {} /\ expired = {} /\ jobs = {} /\ admitted = {} /\ admittedNow = {}
        /\ revoked = {} /\ revokedNow = {} /\ cliRevoked = {} /\ settled = {} /\ lost = 0
    BY DEF Init
  <2>2. DOMAIN issued = {}
    BY <2>1
  <2>3. file \in Files /\ file.list = <<>>
    BY <2>1, EmptyList DEF Files
  <2>4. /\ cli \in [CLIs -> [on : BOOLEAN, list : Seq(Entry)]]
        /\ \A p \in CLIs : cli[p].list = <<>>
    BY <2>1, EmptyList
  <2>5. StoreTypes
    BY <2>1, <2>2, <2>3, <2>4, EmptyList, BoundAssumption DEF StoreTypes
  <2>6. ListsSound /\ ListsFaithful /\ RunInv /\ StayInv
    BY <2>1, <2>3, <2>4, EmptyList DEF ListsSound, ListsFaithful, RunInv, StayInv
  <2>7. TokensKept
    BY <2>1 DEF TokensKept
  <2>8. QED
    BY <2>5, <2>6, <2>7 DEF TokenInv
<1>2. QED
  BY <1>1, TokenStep, PTL DEF Spec

-----------------------------------------------------------------------------
(* Theorems.                                                               *)

\* The types hold throughout: lists and file stay lists of entries whatever writes fail, and
\* only tokens that were created are held or let in.
THEOREM TypeCorrect == Spec => []TypeOK
<1>1. TokenInv => TypeOK
  BY DEF TokenInv, StoreTypes, TypeOK, Files
<1>2. QED
  BY <1>1, TokenInvAlways, PTL

\* Add, Validate, Revoke, the CLI and restarts keep every token that was handed out and not
\* revoked in the token file, as long as no write was lost.
THEOREM TokensKeptAlways == Spec => []TokensKept
<1>1. TokenInv => TokensKept
  BY DEF TokenInv
<1>2. QED
  BY <1>1, TokenInvAlways, PTL

\* Within one run of the server Validate lets no revoked token in and no one-time token twice,
\* whatever becomes of the file.
THEOREM AdmitsOnceInRunAlways == Spec => []AdmitsOnceInRun
<1>1. TokenInv => AdmitsOnceInRun
  <2> SUFFICES ASSUME TokenInv, NEW t \in holders, Valid(t)
               PROVE  t \notin revokedNow /\ ~(mem[Matching(t)].one /\ t \in admittedNow)
    BY DEF AdmitsOnceInRun
  <2>1. Matching(t) \in DOMAIN mem /\ mem[Matching(t)].tok = t
    BY MatchFound DEF TokenInv, StoreTypes, Valid
  <2>2. t # NoToken
    BY NoTokenAssumption DEF TokenInv, StoreTypes
  <2>3. QED
    BY <2>1, <2>2 DEF TokenInv, RunInv, Shuts, Valid
<1>2. QED
  BY <1>1, TokenInvAlways, PTL

\* Over restarts and CLI edits Validate keeps to the terms and the revocations, as long as no
\* write of the token file was lost.
THEOREM AdmitsEntitledAlways == Spec => []AdmitsEntitled
<1>1. TokenInv => AdmitsEntitled
  <2> SUFFICES ASSUME TokenInv, Undamaged, NEW t \in holders, Valid(t)
               PROVE  /\ t \notin revoked \union settled
                      /\ ~(issued[t].exp /\ t \in expired)
                      /\ ~(issued[t].one /\ t \in admitted)
    BY DEF AdmitsEntitled
  <2> DEFINE e == mem[Matching(t)]
  <2>1. Matching(t) \in DOMAIN mem /\ e.tok = t
    BY MatchFound DEF TokenInv, StoreTypes, Valid
  <2>2. t # NoToken
    BY NoTokenAssumption DEF TokenInv, StoreTypes
  <2>3. /\ t \notin revoked \union settled
        /\ e.one /\ t \in admitted => e.used
    BY <2>1, <2>2 DEF TokenInv, StayInv, Shuts
  <2>4. Faithful(mem, issued)
    BY DEF TokenInv, ListsFaithful, Undamaged
  <2>5. e.exp = issued[t].exp /\ e.one = issued[t].one
    BY <2>1, <2>2, <2>4 DEF Faithful
  <2>6. ~(e.one /\ e.used) /\ ~(e.exp /\ t \in expired)
    BY DEF Valid
  <2> HIDE DEF e
  <2>7. QED
    BY <2>3, <2>5, <2>6, Zenon
<1>2. QED
  BY <1>1, TokenInvAlways, PTL
=============================================================================
