----------------------------- MODULE PromptLibrary -----------------------------
(***************************************************************************)
(* The library of saved prompts (crates/btv-store/src/prompt_library.rs):  *)
(* the dashboard's requests (crates/btv-server/src/handlers/prompts.rs)    *)
(* share one connection under a mutex, the chats of terminals              *)
(* (`handle_prompt_command` of crates/btv-cli/src/main.rs) have one each,  *)
(* all on one file.  A statement is atomic; a call of two is not, for the  *)
(* other processes.                                                        *)
(***************************************************************************)
EXTENDS Naturals, FiniteSets, FiniteSetsExt

CONSTANTS
  Asker,       \* requests of the dashboard
  Terminal,    \* chats
  MaxPrompts,  \* bound: prompts ever saved
  MaxToggles   \* bound: favorites inverted

ASSUME LibraryConstants ==
  /\ MaxPrompts \in Nat /\ MaxToggles \in Nat
  /\ Asker \cap Terminal = {}
  /\ "dashboard" \notin Terminal

VARIABLES
  library,   \* the rows: id, the prompt (as the number of its save), its tag, favorite,
             \* and as history how often and from where it was inverted
  saves,     \* prompts ever saved
  toggles,   \* inversions begun
  mutexOf,   \* who holds the dashboard's connection: a set of at most one request
  desk,      \* per user: the call under way
  screen     \* per user: the prompts last listed or shown

libraryVars == <<library, saves, toggles, mutexOf, desk, screen>>

LibraryUser == Asker \cup Terminal
NoWork == [at |-> "idle", id |-> 0, favorite |-> FALSE]

LibraryInit ==
  /\ library = {}
  /\ saves = 0 /\ toggles = 0
  /\ mutexOf = {}
  /\ desk = [u \in LibraryUser |-> NoWork]
  /\ screen = [u \in LibraryUser |-> {}]

(* Bug: a handler lets go of the mutex between its statements. *)
BeginsUnlocked(u) == desk[u].at = "idle"

(* A request locks the connection for its whole handler; a chat is alone   *)
(* on its own.                                                             *)
Begins(u) == desk[u].at = "idle" /\ (u \in Asker => mutexOf = {})
KeepsLock(u) == mutexOf' = IF u \in Asker THEN {u} ELSE mutexOf
Done(u) == desk' = [desk EXCEPT ![u] = NoWork]
From(u) == IF u \in Asker THEN "dashboard" ELSE u

Row(id) == {p \in library : p.id = id}
Shown(rows) == {[id |-> p.id, prompt |-> p.prompt] : p \in rows}

-----------------------------------------------------------------------------
(* `list`, all or those with a tag; `use` reads one by its id.             *)
List(u) ==
  /\ Begins(u)
  /\ \E rows \in {library, {p \in library : p.tagged}} \cup {Row(r.id) : r \in screen[u]} :
       screen' = [screen EXCEPT ![u] = Shown(rows)]
  /\ UNCHANGED <<library, saves, toggles, mutexOf, desk>>

(* Bug: the id after the last row's, as without AUTOINCREMENT. *)
NextIdOfTable == 1 + Max({0} \cup {p.id : p \in library})

(* AUTOINCREMENT: an id is given once. *)
NextPromptId == saves + 1

(* `save`.  A chat has rendered the prompt first, and is told the id.      *)
Save(u) ==
  /\ Begins(u)
  /\ saves < MaxPrompts
  /\ \E tagged \in BOOLEAN :
       library' = library \cup
         {[id |-> NextPromptId, prompt |-> saves + 1, tagged |-> tagged, favorite |-> FALSE,
           inverted |-> 0, by |-> {}]}
  /\ saves' = saves + 1
  /\ IF u \in Asker
     THEN /\ desk' = [desk EXCEPT ![u] = [NoWork EXCEPT !.at = "saved", !.id = NextPromptId]]
          /\ UNCHANGED screen
     ELSE /\ screen' = [screen EXCEPT ![u] = {[id |-> NextPromptId, prompt |-> saves + 1]}]
          /\ UNCHANGED desk
  /\ KeepsLock(u)
  /\ UNCHANGED toggles

(* `create_prompt` answers with the row, or 500 when a chat deleted it.    *)
Created(u) ==
  /\ desk[u].at = "saved"
  /\ screen' = [screen EXCEPT ![u] = Shown(Row(desk[u].id))]
  /\ Done(u)
  /\ mutexOf' = {}
  /\ UNCHANGED <<library, saves, toggles>>

(* `toggle_favorite`: the row is read; one that is not there is told.      *)
ToggleFavorite(u) ==
  /\ Begins(u)
  /\ toggles < MaxToggles
  /\ \E r \in screen[u], p \in library :
       /\ p.id = r.id
       /\ desk' = [desk EXCEPT ![u] = [at |-> "toggling", id |-> p.id, favorite |-> ~p.favorite]]
  /\ toggles' = toggles + 1
  /\ KeepsLock(u)
  /\ UNCHANGED <<library, saves, screen>>

(* And what it was is written inverted, if it is still there: the answer   *)
(* is the state written.                                                   *)
WriteFavorite(u) ==
  /\ desk[u].at = "toggling"
  /\ library' = {IF p.id = desk[u].id
                 THEN [p EXCEPT !.favorite = desk[u].favorite, !.inverted = @ + 1, !.by = @ \cup {From(u)}]
                 ELSE p : p \in library}
  /\ Done(u)
  /\ mutexOf' = mutexOf \ {u}
  /\ UNCHANGED <<saves, toggles, screen>>

Delete(u) ==
  /\ Begins(u)
  /\ \E r \in screen[u] : library' = library \ Row(r.id)
  /\ UNCHANGED <<saves, toggles, mutexOf, desk, screen>>

(* The four routes of the dashboard. *)
DashboardRequest(u) ==
  List(u) \/ Save(u) \/ Created(u) \/ ToggleFavorite(u) \/ WriteFavorite(u) \/ Delete(u)

(* `/prompt library`, `use`, `fav`, `rm` and `save` of a chat. *)
HandlePromptCommand(u) ==
  List(u) \/ Save(u) \/ ToggleFavorite(u) \/ WriteFavorite(u) \/ Delete(u)

LibraryNext ==
  \/ \E u \in Asker : DashboardRequest(u)
  \/ \E u \in Terminal : HandlePromptCommand(u)

LibrarySpec == LibraryInit /\ [][LibraryNext]_libraryVars

-----------------------------------------------------------------------------
(* Properties. *)

(* An id a user was shown is that prompt's for ever, whoever deletes and   *)
(* saves meanwhile: what is then inverted, used or removed under it is     *)
(* what was shown or nothing.  And a favorite inverted from one place only *)
(* is as often inverted as asked ("Inverte o favorito"): the requests of a *)
(* dashboard do not lose each other's.                                     *)
IdsKeepTheirPrompt ==
  /\ \A u \in LibraryUser, p \in library : \A r \in screen[u] : r.id = p.id => r.prompt = p.prompt
  /\ \A p, q \in library : p.id = q.id => p = q
  /\ \A p \in library :
       Cardinality(p.by) <= 1 => (p.favorite <=> p.inverted % 2 = 1)

(* What the comment of `toggle_favorite` says and two processes break: one *)
(* inversion of two is lost.                                               *)
FavoriteIsInverted == \A p \in library : p.favorite <=> p.inverted % 2 = 1
=============================================================================
