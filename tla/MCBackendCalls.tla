---------------------------- MODULE MCBackendCalls ----------------------------
(***************************************************************************)
(* Environments, requests and replies for model checking BackendCalls.     *)
(* Of the environments three are accepted, and there is one for each way   *)
(* to be refused that a broken check would let through.                    *)
(***************************************************************************)
EXTENDS BackendCalls

Unset == [p \in {} |-> 0]

\* Nothing is set but a state file and room for one session.
Base ==
  [profile |-> None, workdirExists |-> TRUE, trustProxy |-> None, url |-> None,
   insecure |-> FALSE, password |-> None, username |-> None, tokens |-> <<>>, token |-> None,
   anonymous |-> FALSE, loopbackHost |-> TRUE, stateFile |-> None,
   childEnvAllow |-> {}, numbers |-> [n \in {"sessions"} |-> 1]]

Site == [scheme |-> "https", bare |-> TRUE, loopback |-> FALSE]

Tokens ==
  [Base EXCEPT
     !.tokens = <<[id |-> "alice", value |-> "a"], [id |-> None, value |-> None],
                  [id |-> None, value |-> "b"]>>,
     !.token = "c", !.loopbackHost = FALSE, !.anonymous = FALSE,
     !.childEnvAllow = {<<"EDITOR">>}]

OAuth ==
  [Base EXCEPT !.url = Site, !.password = 12, !.username = "alice",
               !.token = "b", !.anonymous = TRUE,
               !.profile = "server-secure", !.numbers = Unset]

Local == [Base EXCEPT !.anonymous = TRUE, !.stateFile = ":memory:"]

MCEnvironments ==
  [tokens       |-> Tokens,
   oauth        |-> OAuth,
   local        |-> Local,
   nothing      |-> Base,
   exposed      |-> [Local EXCEPT !.loopbackHost = FALSE],
   crowded      |-> [Tokens EXCEPT !.numbers = [n \in {"sessions"} |-> 20000]],
   notNumber    |-> [Tokens EXCEPT !.numbers = [n \in {"port"} |-> Junk]],
   blankProfile |-> [Tokens EXCEPT !.profile = ""],
   noWorkdir    |-> [Tokens EXCEPT !.workdirExists = FALSE],
   leaking      |-> [Tokens EXCEPT !.childEnvAllow = {<<"NPM_", "TOKEN">>}],
   insecure     |-> [OAuth EXCEPT !.url.scheme = "http"],
   halfOAuth    |-> [OAuth EXCEPT !.password = None],
   weakPassword |-> [OAuth EXCEPT !.password = 11]]

\* A token of each kind, an OAuth access token, and no credentials at all.
MCRequests ==
  {[secrets |-> {"a", "b"}, oauth |-> None], [secrets |-> {"b"}, oauth |-> None],
   [secrets |-> {}, oauth |-> "alice"], [secrets |-> {}, oauth |-> None]}

-----------------------------------------------------------------------------
(* Replies *)

UpTo(length, S) == UNION {[1..n -> S] : n \in 0..length}

Reply(text, chunks, documents, content, list) ==
  [text |-> text, chunks |-> chunks, documents |-> documents, content |-> content,
   list |-> list]

Ones(n) == [i \in 1..n |-> 1]

\* A text with a character across the response limit; a text that is within all
\* limits; a document that ends at the response limit, with a text and a list that are
\* longer than the limits of their tools; and the same document with more behind it.
SomeReplies ==
  {Reply(<<3, 1, 3>>, <<6, 1>>, {}, <<>>, <<>>), Reply(<<1, 3>>, <<4>>, {}, <<>>, <<>>)}
  \cup
  {Reply(Ones(n), <<n - 1, 1>>, {6}, <<Ones(6)>>,
         <<<<[path |-> "out", chars |-> 1], [path |-> "in", chars |-> 3],
             [path |-> "in", chars |-> 3]>>>>) : n \in {6, 7}}

MCLimits ==
  [response |-> 6, file |-> 5, prompt |-> 4, search |-> 8, notice |-> <<1, 1>>,
   inside |-> {"in"}]

-----------------------------------------------------------------------------
\* The operators of BoundedTexts do what they are to, for all small inputs.
ASSUME LimitsAreExact ==
  /\ \A chunks \in UpTo(4, 1..3), limit \in 0..6 : BodyIsExact(chunks, limit)
  /\ \A text \in UpTo(4, 1..4), limit \in 0..6 : TextIsExact(text, limit)
  /\ \A items \in UpTo(4, [path : {"in", "out", "none"}, chars : {1, 3}]), limit \in 2..9 :
       SearchIsExact(items, {"in"}, limit)
=============================================================================
