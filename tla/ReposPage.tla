------------------------------ MODULE ReposPage ------------------------------
(***************************************************************************)
(* The list of repositories with their execution schemes, pages/Repos.tsx. *)
(* The address holds the filters and the page; the search is typed into a  *)
(* box that reaches the address 400 ms after the last key.  Rows unfold to *)
(* their schemes, which App saves and deletes, and hold the state of their *)
(* webhook themselves: it ends with the row.                               *)
(*                                                                         *)
(* A timer writes the address as it was when the key was pressed: the      *)
(* setter of useSearchParams hands its updater the parameters of the       *)
(* render it was taken from, not the present ones.  Answers arrive in any  *)
(* order, and the tables are read when an answer is made.                  *)
(***************************************************************************)
EXTENDS Naturals

CONSTANTS
  None,        \* no timer, no list of schemes
  Repos,
  Schemes,
  Owner,       \* [Schemes -> Repos]
  Configured,  \* the schemes there are at first
  Texts,       \* texts of the search; "" is no search
  Filters,     \* values of a filter; "" is no filter
  Matches,     \* [Texts \X Filters -> SUBSET Repos]
  MaxSent      \* bound: keys, choices and calls by clicks in one behaviour

VARIABLES
  stored,      \* the schemes the server has
  hooks,       \* the repositories whose webhook is registered
  url,         \* the parameters of the address
  search,      \* the text in the box
  searchTimer, \* None, or what it will write and over which address
  result,      \* the rows listed: schemes and webhook as the list told them
  loading,
  expanded,    \* expandedIds
  repoSchemes, \* [Repos -> SUBSET Schemes], None while not asked
  fetching,    \* schemesLoading
  running,     \* runningSchemes
  status,      \* webhookStatus of each row
  registered,  \* webhookRegistered of each row
  waiting,     \* requests in flight
  sent

vars == <<stored, hooks, url, search, searchTimer, result, loading, expanded, repoSchemes,
          fetching, running, status, registered, waiting, sent>>

-----------------------------------------------------------------------------
Listed(u) == IF u.page = 1 THEN Matches[u.search, u.filter] ELSE {}
Own(r) == {s \in stored : Owner[s] = r}
Rows(u) == [r \in Listed(u) |-> [schemes |-> Own(r), hook |-> r \in hooks]]

NoParams == [search |-> "", filter |-> "", page |-> 1]
ReposOf(u) == [kind |-> "repos", url |-> u, n |-> sent]
SchemesOf(r, n) == [kind |-> "schemes", repo |-> r, n |-> n]
Click == sent < MaxSent /\ sent' = sent + 1

Init ==
  /\ stored = Configured /\ hooks = {}
  /\ url \in [search: Texts, filter: Filters, page: {1}] /\ search = url.search
  /\ searchTimer = None /\ result = <<>> /\ loading = TRUE /\ expanded = {}
  /\ repoSchemes = [r \in Repos |-> None] /\ fetching = {} /\ running = {}
  /\ status = [r \in Repos |-> "idle"] /\ registered = {}
  /\ sent = 0 /\ waiting = {ReposOf(url)}

-----------------------------------------------------------------------------
(* The address.  Whoever changes it, the box takes the search it has and   *)
(* the list is asked for.                                                  *)

(* Mutant: the box keeps its text when the address changes.                *)
GoAndKeep(u) ==
  /\ url' = u
  /\ IF u = url THEN UNCHANGED <<search, loading, waiting>>
     ELSE UNCHANGED search /\ loading' = TRUE /\ waiting' = waiting \cup {ReposOf(u)}
Go(u) ==
  /\ url' = u
  /\ IF u = url THEN UNCHANGED <<search, loading, waiting>>
     ELSE search' = u.search /\ loading' = TRUE /\ waiting' = waiting \cup {ReposOf(u)}

ResetAndFilter(f) ==
  /\ f # url.filter /\ Click /\ Go([url EXCEPT !.filter = f, !.page = 1])
  /\ UNCHANGED <<stored, hooks, searchTimer, result, expanded, repoSchemes, fetching, running,
                 status, registered>>
ChoosePage(p) ==
  /\ p # url.page /\ Click /\ Go([url EXCEPT !.page = p])
  /\ UNCHANGED <<stored, hooks, searchTimer, result, expanded, repoSchemes, fetching, running,
                 status, registered>>
(* The entry of the menu leads to the page without parameters; the page    *)
(* that is there stays, and with it its timer.                             *)
ChooseMenu ==
  /\ url # NoParams /\ Click /\ Go(NoParams)
  /\ UNCHANGED <<stored, hooks, searchTimer, result, expanded, repoSchemes, fetching, running,
                 status, registered>>
HandleSearchChange(v) ==
  /\ v # search /\ Click
  /\ search' = v /\ searchTimer' = [search |-> v, over |-> url]
  /\ UNCHANGED <<stored, hooks, url, result, loading, expanded, repoSchemes, fetching,
                 running, status, registered, waiting>>
SearchTimeout ==
  /\ searchTimer # None /\ searchTimer' = None
  /\ Go([searchTimer.over EXCEPT !.search = searchTimer.search, !.page = 1])
  /\ UNCHANGED <<stored, hooks, result, expanded, repoSchemes, fetching, running, status,
                 registered, sent>>

-----------------------------------------------------------------------------
(* Rows and their schemes *)

ToggleExpand(r) ==
  /\ r \in DOMAIN result /\ Click
  /\ IF r \in expanded
     THEN expanded' = expanded \ {r} /\ UNCHANGED <<fetching, waiting>>
     ELSE /\ expanded' = expanded \cup {r}
          /\ IF repoSchemes[r] = None
             THEN fetching' = fetching \cup {r} /\ waiting' = waiting \cup {SchemesOf(r, sent)}
             ELSE UNCHANGED <<fetching, waiting>>
  /\ UNCHANGED <<stored, hooks, url, search, searchTimer, result, loading, repoSchemes,
                 running, status, registered>>

(* The list and the rows that are unfolded; the others keep what they had. *)
FetchAgain(left, n) ==
  /\ loading' = TRUE /\ fetching' = fetching \cup expanded
  /\ waiting' = left \cup {[ReposOf(url) EXCEPT !.n = n]} \cup {SchemesOf(r, n) : r \in expanded}
Refresh ==
  /\ Click /\ FetchAgain(waiting, sent)
  /\ UNCHANGED <<stored, hooks, url, search, searchTimer, result, expanded, repoSchemes,
                 running, status, registered>>

(* The schemes under an unfolded row: none while they are asked for.       *)
Shown(r) ==
  IF r \notin DOMAIN result \cap expanded \/ r \in fetching THEN {}
  ELSE IF repoSchemes[r] # None THEN repoSchemes[r] ELSE result[r].schemes

Send(w) == Click /\ waiting' = waiting \cup {w}
(* Mutant: the flag is not looked at.                                      *)
RunAgain(s) ==
  /\ s \in Shown(Owner[s])
  /\ Send([kind |-> "run", scheme |-> s, n |-> sent]) /\ running' = running \cup {s}
  /\ UNCHANGED <<stored, hooks, url, search, searchTimer, result, loading, expanded,
                 repoSchemes, fetching, status, registered>>
HandleRunScheme(s) ==
  /\ s \in Shown(Owner[s]) /\ s \notin running
  /\ Send([kind |-> "run", scheme |-> s, n |-> sent]) /\ running' = running \cup {s}
  /\ UNCHANGED <<stored, hooks, url, search, searchTimer, result, loading, expanded,
                 repoSchemes, fetching, status, registered>>

(* The forms of App: a new scheme of a row, and a deletion that was        *)
(* confirmed.                                                              *)
SaveScheme(s) ==
  /\ Owner[s] \in DOMAIN result /\ s \notin stored
  /\ Send([kind |-> "save", scheme |-> s, n |-> sent])
  /\ UNCHANGED <<stored, hooks, url, search, searchTimer, result, loading, expanded,
                 repoSchemes, fetching, running, status, registered>>
HandleDeleteScheme(s) ==
  /\ s \in Shown(Owner[s]) /\ Send([kind |-> "delete", scheme |-> s, n |-> sent])
  /\ UNCHANGED <<stored, hooks, url, search, searchTimer, result, loading, expanded,
                 repoSchemes, fetching, running, status, registered>>

(* The button of a row checks its webhook, or registers one.               *)
HandleWebhook(r) ==
  /\ r \in DOMAIN result /\ status[r] = "idle"
  /\ LET call == IF r \in registered THEN "checking" ELSE "registering"
     IN  /\ status' = [status EXCEPT ![r] = call]
         /\ Send([kind |-> call, repo |-> r, mounted |-> TRUE, n |-> sent])
  /\ UNCHANGED <<stored, hooks, url, search, searchTimer, result, loading, expanded,
                 repoSchemes, fetching, running, registered>>

-----------------------------------------------------------------------------
(* Answers *)

(* A row whose repository is listed no more ends, and its calls tell       *)
(* nobody; a row takes what the list says of its webhook when that changes.*)
Told(rows) == {r \in DOMAIN rows : r \in DOMAIN result => result[r].hook # rows[r].hook}
OfRow(w) == w.kind \in {"checking", "registering"}
Ended(rows) == {w \in waiting : OfRow(w) /\ w.repo \notin DOMAIN rows}
ReposAnswer(w, ok) ==
  /\ w.kind = "repos" /\ loading' = FALSE
  /\ LET rows == IF ok THEN Rows(w.url) ELSE <<>>
     IN  /\ result' = rows
         /\ status' = [r \in Repos |-> IF r \in DOMAIN rows THEN status[r] ELSE "idle"]
         /\ registered' = {r \in DOMAIN rows :
                             IF r \in Told(rows) THEN rows[r].hook ELSE r \in registered}
         /\ waiting' = (waiting \ ({w} \cup Ended(rows)))
                       \cup {[c EXCEPT !.mounted = FALSE] : c \in Ended(rows)}
  /\ UNCHANGED <<stored, hooks, url, search, searchTimer, expanded, repoSchemes, fetching,
                 running, sent>>
(* Mutant: an answer that fails leaves the row asking.                     *)
SchemesAnswerKept(w, ok) ==
  /\ w.kind = "schemes" /\ waiting' = waiting \ {w}
  /\ fetching' = IF ok THEN fetching \ {w.repo} ELSE fetching
  /\ repoSchemes' = IF ok THEN [repoSchemes EXCEPT ![w.repo] = Own(w.repo)] ELSE repoSchemes
  /\ UNCHANGED <<stored, hooks, url, search, searchTimer, result, loading, expanded, running,
                 status, registered, sent>>
(* The body of a refusal is kept as the list of the row, which then has no *)
(* schemes; an unfolded row cannot draw it and the page of the code ends,  *)
(* where this one goes on.                                                 *)
SchemesAnswer(w, ok) ==
  /\ w.kind = "schemes" /\ waiting' = waiting \ {w}
  /\ fetching' = fetching \ {w.repo}
  /\ repoSchemes' \in IF ok THEN {[repoSchemes EXCEPT ![w.repo] = Own(w.repo)]}
                     ELSE {repoSchemes, [repoSchemes EXCEPT ![w.repo] = {}]}
  /\ UNCHANGED <<stored, hooks, url, search, searchTimer, result, loading, expanded, running,
                 status, registered, sent>>
RunAnswer(w) ==
  /\ w.kind = "run" /\ waiting' = waiting \ {w} /\ running' = running \ {w.scheme}
  /\ UNCHANGED <<stored, hooks, url, search, searchTimer, result, loading, expanded,
                 repoSchemes, fetching, status, registered, sent>>

(* schemeUpdateKey counts the changes that succeeded; the page asks again. *)
ChangeAnswer(w, ok) ==
  /\ w.kind \in {"save", "delete"}
  /\ stored' = IF ~ok THEN stored
               ELSE IF w.kind = "save" THEN stored \cup {w.scheme} ELSE stored \ {w.scheme}
  /\ IF ok THEN FetchAgain(waiting \ {w}, w.n)
     ELSE waiting' = waiting \ {w} /\ UNCHANGED <<loading, fetching>>
  /\ UNCHANGED <<hooks, url, search, searchTimer, result, expanded, repoSchemes, running,
                 status, registered, sent>>
(* A call that fails may have registered the webhook; a check that the     *)
(* server refuses reads as a webhook that is not registered.               *)
WebhookAnswer(w, ok) ==
  /\ OfRow(w) /\ waiting' = waiting \ {w}
  /\ IF w.kind = "checking" THEN hooks' = hooks
     ELSE hooks' = hooks \cup {w.repo} \/ (~ok /\ hooks' = hooks)
  /\ status' = IF w.mounted THEN [status EXCEPT ![w.repo] = "idle"] ELSE status
  /\ registered' \in
       IF ~w.mounted THEN {registered}
       ELSE IF ok THEN {(registered \ {w.repo}) \cup (hooks' \cap {w.repo})}
       ELSE {registered} \cup (IF w.kind = "checking" THEN {registered \ {w.repo}} ELSE {})
  /\ UNCHANGED <<stored, url, search, searchTimer, result, loading, expanded, repoSchemes,
                 fetching, running, sent>>

Next ==
  \/ \E f \in Filters : ResetAndFilter(f)
  \/ \E p \in 1 .. 2 : ChoosePage(p)
  \/ \E v \in Texts : HandleSearchChange(v)
  \/ ChooseMenu \/ SearchTimeout \/ Refresh
  \/ \E r \in Repos : ToggleExpand(r) \/ HandleWebhook(r)
  \/ \E s \in Schemes : HandleRunScheme(s) \/ SaveScheme(s) \/ HandleDeleteScheme(s)
  \/ \E w \in waiting, ok \in BOOLEAN :
       \/ ReposAnswer(w, ok) \/ SchemesAnswer(w, ok) \/ RunAnswer(w)
       \/ ChangeAnswer(w, ok) \/ WebhookAnswer(w, ok)

Spec == Init /\ [][Next]_vars

-----------------------------------------------------------------------------
(* Properties *)

(* What is given: schemes have an owner, matches are repositories, and     *)
(* None is no timer.                                                       *)
Sensible ==
  /\ Owner \in [Schemes -> Repos] /\ Configured \subseteq Schemes
  /\ Matches \in [Texts \X Filters -> SUBSET Repos]
  /\ "" \in Texts /\ "" \in Filters
  /\ None \notin [search: Texts, over: [search: Texts, filter: Filters, page: 1 .. 2]]

(* The values of the variables: rows, flags and what is shown of them.     *)
Asked(kind) == {w \in waiting : w.kind = kind}
TypeOK ==
  /\ url \in [search: Texts, filter: Filters, page: 1 .. 2] /\ search \in Texts
  /\ DOMAIN result \subseteq Repos /\ expanded \subseteq Repos
  /\ repoSchemes \in [Repos -> (SUBSET Schemes) \cup {None}]
  /\ status \in [Repos -> {"idle", "checking", "registering"}]
  /\ registered \subseteq DOMAIN result

(* Every spinner of the list ends: it turns only while an answer that ends *)
(* it is on its way, though the answers of a row may be several, fail, and *)
(* arrive after the row is folded, refreshed or gone.                      *)
SpinnersEnd ==
  /\ loading => Asked("repos") # {}
  /\ \A r \in fetching : \E w \in Asked("schemes") : w.repo = r
  /\ \A r \in Repos : status[r] # "idle" => \E w \in Asked(status[r]) : w.repo = r /\ w.mounted

(* Once no key waits for its timer, the box shows the search the list was  *)
(* asked with, whatever filters and pages were chosen while it waited.     *)
SearchSettles == searchTimer = None => search = url.search

(* A scheme is run by one call at a time and a row makes one call about    *)
(* its webhook, and their buttons are disabled for as long, however the    *)
(* rows and their lists change meanwhile.                                  *)
Flies(busy, calls) == IF busy THEN \E c \in waiting : calls = {c} ELSE calls = {}
OneRowCall ==
  /\ \A s \in Schemes : Flies(s \in running, {w \in Asked("run") : w.scheme = s})
  /\ \A r \in Repos : Flies(status[r] # "idle",
                            {w \in waiting : OfRow(w) /\ w.repo = r /\ w.mounted})
=============================================================================
