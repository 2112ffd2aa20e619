---------------------------- MODULE TemplateStore ----------------------------
(***************************************************************************)
(* One template of template-service: the entry of the map templateStore,   *)
(* which serves every read of the service, and the row of the table        *)
(* `templates`, which campaign-service reads and from which the map is     *)
(* loaded at the start. Loading and saving ignore their errors; deleting   *)
(* does not touch the row.                                                 *)
(***************************************************************************)
EXTENDS Naturals

CONSTANTS
    Creators,        \* requests POST /templates for this template
    Bodies,
    MaxVersion,      \* bound on the versions
    MaxSaveFaults    \* bound on failing loads and saves

VARIABLES
    store,           \* the map's entry, NoTemplate if there is none
    table,           \* the row, NoTemplate if there is none
    dbOpen,          \* db # nil: the process opened Postgres when it started
    creating,        \* per creator: the template it has stored and not yet saved
    overtakenPosts,  \* history: those since whose write the map was written again
    rowStale,        \* history: the row missed the map's last write, or the map the row
    saveFaults

templateVars == <<store, table, dbOpen, creating, overtakenPosts, rowStale, saveFaults>>

NoTemplate == [body |-> "none", version |-> 0]

TemplateInit ==
    /\ store = NoTemplate /\ table = NoTemplate /\ dbOpen = TRUE
    /\ creating = [c \in Creators |-> NoTemplate]
    /\ overtakenPosts = {} /\ rowStale = FALSE
    /\ saveFaults = 0

SaveFault == saveFaults < MaxSaveFaults /\ saveFaults' = saveFaults + 1

\* Creators that have written the map and not yet the row.
Pending == {c \in Creators : creating[c] # NoTemplate}

-----------------------------------------------------------------------------
\* Mutant: ON CONFLICT DO NOTHING.
SaveOnlyNew(template, late) ==
    /\ table' = IF table = NoTemplate THEN template ELSE table
    /\ rowStale' = late
    /\ UNCHANGED saveFaults

\* The upsert; `late` if the map was written again since it had this template.
\* Errors are ignored, and without a connection it does nothing.
SaveTemplateToDB(template, late) ==
    \/ /\ dbOpen
       /\ table' = template /\ rowStale' = late
       /\ UNCHANGED saveFaults
    \/ /\ IF dbOpen THEN SaveFault ELSE UNCHANGED saveFaults
       /\ rowStale' = TRUE
       /\ UNCHANGED table

\* POST: the map is written under its mutex, with version 1 whatever it held ...
Create(c) ==
    /\ creating[c] = NoTemplate
    /\ \E b \in Bodies :
        /\ store' = [body |-> b, version |-> 1]
        /\ creating' = [creating EXCEPT ![c] = store']
    /\ overtakenPosts' = Pending
    /\ UNCHANGED <<table, dbOpen, rowStale, saveFaults>>

\* ... and the row after the mutex was released.
SaveCreated(c) ==
    /\ creating[c] # NoTemplate
    /\ SaveTemplateToDB(creating[c], c \in overtakenPosts)
    /\ creating' = [creating EXCEPT ![c] = NoTemplate]
    /\ overtakenPosts' = overtakenPosts \ {c}
    /\ UNCHANGED <<store, dbOpen>>

\* PUT: under the mutex, map and row.
Put ==
    /\ store # NoTemplate /\ store.version < MaxVersion
    /\ \E b \in Bodies :
        LET updated == [body |-> b, version |-> store.version + 1]
        IN  store' = updated /\ SaveTemplateToDB(updated, FALSE)
    /\ overtakenPosts' = Pending
    /\ UNCHANGED <<dbOpen, creating>>

\* DELETE: from the map only.
Delete ==
    /\ store # NoTemplate
    /\ store' = NoTemplate
    /\ overtakenPosts' = Pending /\ rowStale' = TRUE
    /\ UNCHANGED <<table, dbOpen, creating, saveFaults>>

\* A new process reads the table; requests under way are gone. Postgres may be
\* out of reach, the query or the scan of the row may fail: the process serves
\* an empty map, and without a connection saves nothing either.
Reload ==
    /\ \/ /\ store' = table /\ dbOpen' = TRUE
          /\ rowStale' = FALSE
          /\ UNCHANGED saveFaults
       \/ /\ SaveFault
          /\ store' = NoTemplate /\ dbOpen' \in BOOLEAN
          /\ rowStale' = TRUE
    /\ creating' = [c \in Creators |-> NoTemplate] /\ overtakenPosts' = {}
    /\ UNCHANGED table

TemplateNext ==
    \/ \E c \in Creators : Create(c) \/ SaveCreated(c)
    \/ Put \/ Delete \/ Reload

TemplateSpec == TemplateInit /\ [][TemplateNext]_templateVars

-----------------------------------------------------------------------------
\* What campaigns are sent is what the service shows, and a restart changes
\* nothing: however POST, PUT and restarts interleave, row and map agree when no
\* POST is between its two steps, unless the last save or load failed, a POST
\* was saved after a later write of the map, or the template was deleted.
TableFollowsStore == rowStale \/ store = table \/ Pending # {}
=============================================================================
