----------------------------- MODULE TokenStore -----------------------------
(***************************************************************************)
(* Access tokens: internal/auth/token.go, as used by the running server,   *)
(* the HTTP API, `auth-vpn server tokens` and the CI jobs that create and  *)
(* revoke a token of their own.                                            *)
(*                                                                         *)
(* The server loads the token file once, when it starts, and from then on  *)
(* works on its own list, rewriting the whole file after each change.  A   *)
(* CLI command is a process with a list of its own: it loads the file,     *)
(* changes its list and rewrites the file.  A token is identified by its   *)
(* hash; names need not be unique.                                         *)
(***************************************************************************)
EXTENDS Integers, SequencesExt

CONSTANTS Tokens,   \* raw token values that Generate may return
          NoToken,  \* the hash of an entry that no raw token matches
          Names,    \* token names
          CLIs,     \* CLI processes
          Offered,  \* the terms tokens are asked for: [exp, one]
          MaxLost   \* bound on the writes of the file that fail

ASSUME NoTokenAssumption == NoToken \notin Tokens
ASSUME OfferedAssumption == Offered \subseteq [exp : BOOLEAN, one : BOOLEAN]
ASSUME BoundAssumption == MaxLost \in Nat

VARIABLES
  mem,      \* Manager.tokens of the running server
  file,     \* tokens.yaml: [ok, list]; ok is FALSE when it does not parse
  server,   \* "up" or "down"
  cli,      \* CLI process -> [on, list]: is it running, the list it loaded
  issued,   \* the tokens created so far -> the terms they were created under
  holders,  \* tokens whose raw value reached the one who asked for it
  expired,  \* tokens whose expires_at, if they have one, has passed
  jobs,     \* CI jobs that are running: [tok, name]
  admitted, \* history: tokens Validate has let in
  admittedNow, \* history: the same since the server started
  revoked,  \* history: tokens whose revocation the API confirmed
  revokedNow, \* history: the same since the server started
  cliRevoked, \* history: tokens whose revocation the CLI confirmed
  settled,  \* history: cliRevoked as it was when the server last started
  lost,     \* history: rewrites of the file that failed or were cut short
  overwritten \* history: a rewrite replaced contents its author had not seen

history == <<admitted, admittedNow, revoked, revokedNow, cliRevoked, settled>>
vars == <<mem, file, server, cli, issued, holders, expired, jobs, history,
          lost, overwritten>>

\* The fields of Token, in the order they are written; created_at is left out.
Entry == [tok : Tokens \union {NoToken}, name : Names,
          exp : BOOLEAN, one : BOOLEAN, used : BOOLEAN]

NewEntry(t, n, terms) ==
    [tok |-> t, name |-> n, exp |-> terms.exp, one |-> terms.one, used |-> FALSE]

Toks(list) == {list[k].tok : k \in DOMAIN list}

Init ==
    /\ mem = <<>>
    /\ file = [ok |-> TRUE, list |-> <<>>]
    /\ server = "up"
    /\ cli = [p \in CLIs |-> [on |-> FALSE, list |-> <<>>]]
    /\ issued = <<>>
    /\ holders = {}
    /\ expired = {}
    /\ jobs = {}
    /\ admitted = {} /\ admittedNow = {}
    /\ revoked = {} /\ revokedNow = {} /\ cliRevoked = {} /\ settled = {}
    /\ lost = 0
    /\ overwritten = FALSE

-----------------------------------------------------------------------------
(* save: os.WriteFile truncates the file and writes the marshalled list.   *)

\* What is left of an entry when the write stops inside it and the file still
\* parses: the fields that follow the cut are absent.
CutEntry(e) ==
    { [e EXCEPT !.tok = NoToken, !.exp = FALSE, !.one = FALSE, !.used = FALSE],
      [e EXCEPT !.exp = FALSE, !.one = FALSE, !.used = FALSE],
      [e EXCEPT !.one = FALSE, !.used = FALSE],
      [e EXCEPT !.used = FALSE] }

\* The file after a write of list that was cut short.
Torn(list) ==
    {[ok |-> FALSE, list |-> <<>>]}
    \union {[ok |-> TRUE, list |-> SubSeq(list, 1, k)] : k \in 0..Len(list)}
    \union UNION {{[ok |-> TRUE, list |-> SubSeq(list, 1, k - 1) \o <<e>>] :
                      e \in CutEntry(list[k])} : k \in 1..Len(list)}

\* The process that had loaded or written before rewrites the file with after.
SaveOK(before, after) ==
    /\ file' = [ok |-> TRUE, list |-> after]
    /\ overwritten' = (overwritten \/ file # [ok |-> TRUE, list |-> before])
    /\ UNCHANGED lost

\* save returns an error: the file could not be opened, or was cut short.
SaveFails(list) ==
    /\ file' \in {file} \union Torn(list)
    /\ lost < MaxLost
    /\ lost' = lost + 1
    /\ UNCHANGED overwritten

-----------------------------------------------------------------------------
(* Manager's operations on the server's list, each under its lock.         *)

Created(t, terms) ==
    /\ t \notin DOMAIN issued
    /\ issued' = [u \in DOMAIN issued \union {t} |-> IF u = t THEN terms ELSE issued[u]]

\* Mutant: the new list is not written.
AddToMemUnsaved(t, n, terms) ==
    /\ server = "up"
    /\ Created(t, terms)
    /\ mem' = Append(mem, NewEntry(t, n, terms))
    /\ holders' = holders \union {t}
    /\ UNCHANGED <<file, lost, overwritten>>

\* Manager.Add behind POST /api/tokens: the raw token is in the answer only when
\* save succeeded, the entry is in the server's list either way.
AddToMem(t, n, terms) ==
    /\ server = "up"
    /\ Created(t, terms)
    /\ mem' = Append(mem, NewEntry(t, n, terms))
    /\ \/ SaveOK(mem, mem') /\ holders' = holders \union {t}
       \/ SaveFails(mem') /\ UNCHANGED holders

Add(t, n, terms) ==
    /\ AddToMem(t, n, terms)
    /\ UNCHANGED <<server, cli, expired, jobs, history>>

Matching(t) == SelectInSeq(mem, LAMBDA e : e.tok = t)

\* Validate finds the token, unused if it is one-time, and not expired.
Valid(t) ==
    /\ Matching(t) # 0
    /\ ~(mem[Matching(t)].one /\ mem[Matching(t)].used)
    /\ ~(mem[Matching(t)].exp /\ t \in expired)

LetIn(t) == admitted' = admitted \union {t} /\ admittedNow' = admittedNow \union {t}

\* Mutant: the use is recorded in the file only.
MarkUsedInFile(t) ==
    /\ file' = [ok |-> TRUE, list |-> [mem EXCEPT ![Matching(t)].used = TRUE]]
    /\ UNCHANGED <<mem, lost, overwritten>>

\* t.Used = true, and save, whose result is ignored.
MarkUsed(t) ==
    /\ mem' = [mem EXCEPT ![Matching(t)].used = TRUE]
    /\ SaveOK(mem, mem') \/ SaveFails(mem')

\* Mutant: a one-time token is marked in memory and never saved.
ValidateUnsaved(t) ==
    /\ server = "up"
    /\ t \in holders
    /\ Valid(t)
    /\ IF mem[Matching(t)].one
       THEN mem' = [mem EXCEPT ![Matching(t)].used = TRUE]
       ELSE UNCHANGED mem
    /\ LetIn(t)
    /\ UNCHANGED <<file, server, cli, issued, holders, expired, jobs, revoked,
                   revokedNow, cliRevoked, settled, lost, overwritten>>

\* Validate of a token someone holds.  A refused token changes nothing.
Validate(t) ==
    /\ server = "up"
    /\ t \in holders
    /\ Valid(t)
    /\ IF mem[Matching(t)].one
       THEN MarkUsed(t)
       ELSE UNCHANGED <<mem, file, lost, overwritten>>
    /\ LetIn(t)
    /\ UNCHANGED <<server, cli, issued, holders, expired, jobs, revoked,
                   revokedNow, cliRevoked, settled>>

FirstNamed(list, n) == SelectInSeq(list, LAMBDA e : e.name = n)

\* Manager.Revoke behind DELETE /api/tokens/<name>: the first entry with that
\* name goes; it is confirmed when save succeeded.
RevokeInMem(n) ==
    /\ server = "up"
    /\ FirstNamed(mem, n) # 0
    /\ mem' = RemoveAt(mem, FirstNamed(mem, n))
    /\ \/ /\ SaveOK(mem, mem')
          /\ revoked' = revoked \union {mem[FirstNamed(mem, n)].tok}
          /\ revokedNow' = revokedNow \union {mem[FirstNamed(mem, n)].tok}
       \/ SaveFails(mem') /\ UNCHANGED <<revoked, revokedNow>>
    /\ UNCHANGED <<server, cli, issued, holders, expired, admitted, admittedNow, cliRevoked,
                   settled>>

Revoke(n) == RevokeInMem(n) /\ UNCHANGED jobs

\* Time passes the expires_at of t.
Expire(t) ==
    /\ t \notin expired
    /\ t \in DOMAIN issued /\ issued[t].exp
    /\ expired' = expired \union {t}
    /\ UNCHANGED <<mem, file, server, cli, issued, holders, jobs, history, lost,
                   overwritten>>

-----------------------------------------------------------------------------
(* auth-vpn server tokens add | revoke: a process of its own.              *)

\* NewManager in the CLI process.
CLILoad(p) ==
    /\ ~cli[p].on
    /\ file.ok
    /\ cli' = [cli EXCEPT ![p] = [on |-> TRUE, list |-> file.list]]
    /\ UNCHANGED <<mem, file, server, issued, holders, expired, jobs, history,
                   lost, overwritten>>

CLIDone(p) == cli[p].on /\ cli' = [cli EXCEPT ![p] = [on |-> FALSE, list |-> <<>>]]

CLIAdd(p, t, n, terms) ==
    /\ CLIDone(p)
    /\ Created(t, terms)
    /\ LET after == Append(cli[p].list, NewEntry(t, n, terms))
       IN \/ SaveOK(cli[p].list, after) /\ holders' = holders \union {t}
          \/ SaveFails(after) /\ UNCHANGED holders
    /\ UNCHANGED <<mem, server, expired, jobs, history>>

CLIRevoke(p, n) ==
    /\ CLIDone(p)
    /\ FirstNamed(cli[p].list, n) # 0
    /\ LET after == RemoveAt(cli[p].list, FirstNamed(cli[p].list, n))
       IN \/ /\ SaveOK(cli[p].list, after)
             /\ cliRevoked' = cliRevoked \union {cli[p].list[FirstNamed(cli[p].list, n)].tok}
          \/ SaveFails(after) /\ UNCHANGED cliRevoked
    /\ UNCHANGED <<mem, server, issued, holders, expired, jobs, admitted, admittedNow,
                   revoked, revokedNow, settled>>

\* token %q not found
CLIRevokeFails(p, n) ==
    /\ CLIDone(p)
    /\ FirstNamed(cli[p].list, n) = 0
    /\ UNCHANGED <<mem, file, server, issued, holders, expired, jobs, history,
                   lost, overwritten>>

-----------------------------------------------------------------------------
(* connect --github-action: a token per job, named after the workflow run. *)
(* The jobs of a matrix have the same name.                                *)

JobTerms == [exp |-> TRUE, one |-> FALSE]

\* Mutant: the answer's status is not checked.
JobStartUnchecked(t, n) ==
    /\ AddToMem(t, n, JobTerms)
    /\ jobs' = jobs \union {[tok |-> t, name |-> n]}
    /\ UNCHANGED <<server, cli, expired, history>>

\* generateEphemeralToken; the job starts when the token arrives.
JobStart(t, n) ==
    /\ AddToMem(t, n, JobTerms)
    /\ jobs' = IF t \in holders' THEN jobs \union {[tok |-> t, name |-> n]} ELSE jobs
    /\ UNCHANGED <<server, cli, expired, history>>

\* revokeEphemeralToken, deferred, reaches the server.
JobEnd(j) ==
    /\ j \in jobs
    /\ RevokeInMem(j.name)
    /\ jobs' = jobs \ {j}

\* The job is killed, the call does not get through, or no such name is left:
\* the two-hour expiry is the backstop.
JobLost(j) ==
    /\ j \in jobs
    /\ jobs' = jobs \ {j}
    /\ UNCHANGED <<mem, file, server, cli, issued, holders, expired, history,
                   lost, overwritten>>

-----------------------------------------------------------------------------
(* The server's process ends and starts again.                             *)

\* Lists that an operation may be saving when the process dies; the raw value of
\* a token being added never reaches anyone, so its terms do not matter.
Underway ==
    {[mem EXCEPT ![k].used = TRUE] : k \in {j \in DOMAIN mem : mem[j].one}}
    \union {RemoveAt(mem, k) : k \in DOMAIN mem}
    \union {Append(mem, NewEntry(NoToken, n, JobTerms)) : n \in Names}

\* The server stops, between operations or inside save.
Crash ==
    /\ server = "up"
    /\ server' = "down"
    /\ mem' = <<>>
    /\ \/ UNCHANGED <<file, lost, overwritten>>
       \/ \E list \in Underway : SaveFails(list)
    /\ UNCHANGED <<cli, issued, holders, expired, jobs, history>>

\* NewManager: the server does not start on a file that does not parse.
Restart ==
    /\ server = "down"
    /\ file.ok
    /\ server' = "up"
    /\ mem' = file.list
    /\ admittedNow' = {}
    /\ revokedNow' = {}
    /\ settled' = cliRevoked
    /\ UNCHANGED <<file, cli, issued, holders, expired, jobs, admitted, revoked,
                   cliRevoked, lost, overwritten>>

Next ==
    \/ \E t \in Tokens :
         \/ \E n \in Names, terms \in Offered : Add(t, n, terms)
         \/ \E n \in Names : JobStart(t, n)
         \/ Validate(t)
         \/ Expire(t)
         \/ \E p \in CLIs, n \in Names, terms \in Offered : CLIAdd(p, t, n, terms)
    \/ \E n \in Names : Revoke(n)
    \/ \E p \in CLIs : CLILoad(p)
    \/ \E p \in CLIs, n \in Names : CLIRevoke(p, n) \/ CLIRevokeFails(p, n)
    \/ \E j \in jobs : JobEnd(j) \/ JobLost(j)
    \/ Crash
    \/ Restart

Spec == Init /\ [][Next]_vars

-----------------------------------------------------------------------------
(* Properties.                                                             *)

\* Types of the variables; every running job holds the token it was started with,
\* and only tokens that were created are held, have expired or were let in.
TypeOK ==
    /\ mem \in Seq(Entry)
    /\ file.ok \in BOOLEAN /\ file.list \in Seq(Entry)
    /\ server \in {"up", "down"}
    /\ \A p \in CLIs : cli[p].on \in BOOLEAN /\ cli[p].list \in Seq(Entry)
    /\ DOMAIN issued \subseteq Tokens
    /\ \A t \in DOMAIN issued : issued[t] \in Offered \union {JobTerms}
    /\ lost \in 0..MaxLost
    /\ jobs \subseteq [tok : holders, name : Names]
    /\ holders \union expired \union admitted \subseteq DOMAIN issued

\* Every write of the token file took effect and none undid another process's.
Undamaged == lost = 0 /\ ~overwritten

\* Whoever Validate would let in is entitled to it by the terms the token was issued
\* under: not revoked through the API, nor by the CLI before the server started,
\* not expired, and a one-time token never a second time, over any number of
\* restarts and CLI edits, as long as no write of the token file was lost.
AdmitsEntitled ==
    server = "up" /\ Undamaged =>
      \A t \in holders :
        Valid(t) =>
          /\ t \notin revoked \union settled
          /\ ~(issued[t].exp /\ t \in expired)
          /\ ~(issued[t].one /\ t \in admitted)

\* Within one run of the server the list in memory decides, so that a revoked
\* token and a used one-time token stay out whatever happens to the file: save
\* failing (its error is ignored in Validate) or another process rewriting it.
AdmitsOnceInRun ==
    server = "up" =>
      \A t \in holders :
        Valid(t) =>
          /\ t \notin revokedNow
          /\ ~(mem[Matching(t)].one /\ t \in admittedNow)

\* A token that was handed out and never revoked is in the file, however Add,
\* Validate, Revoke, the CLI and restarts followed each other, as long as no
\* write was lost: Revoke takes out one entry and Validate keeps them all.
TokensKept ==
    Undamaged /\ file.ok =>
      holders \ (revoked \union cliRevoked) \subseteq Toks(file.list)
=============================================================================
