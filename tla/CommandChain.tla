----------------------------- MODULE CommandChain -----------------------------
(***************************************************************************)
(* From a trade plan to an execution command: an intent is made of a plan, *)
(* an authorization of an intent, a command of both.  Authorizations and   *)
(* commands are files under their ids, which are hashes of a part of what  *)
(* they say; ids are that part here.                                       *)
(*                                                                         *)
(* Callers work on the same directories from processes of their own.  A    *)
(* save first looks whether there is a file of the id, then writes; what a *)
(* caller holds is lost when its process ends, the files stay.             *)
(***************************************************************************)
EXTENDS Integers, FiniteSets

CONSTANTS
    Callers,    \* processes
    Plans,      \* economic contents of trade plans
    Scopes,     \* scopes that authorizations are asked for
    MaxTime,    \* bound: instants
    MaxIntents  \* bound: intents made

ASSUME ChainAssumption == MaxTime \in Nat /\ MaxIntents \in Nat

VARIABLES
    now,
    intents,         \* intents that callers know of
    authorizations,  \* authorization files, by id
    commands,        \* command files, by id
    doing,           \* what each caller is saving
    granted          \* history: ids of the authorizations that authorize has made

chainVars == <<now, intents, authorizations, commands, doing, granted>>

-----------------------------------------------------------------------------
Times == 0..MaxTime
NoEnd == MaxTime + 1    \* valid_until is None: no instant is past it
Modes == {"paper", "live"}

Intents == [plan : Plans, created : Times, until : Times \cup {NoEnd}]
IntentIds == [plan : Plans, created : Times]
Authorizations ==
    [intent : IntentIds, content : Plans, status : {"AUTHORIZED", "REVOKED"}, scope : Scopes,
     at : Times, from : Times, expires : Times]
AuthorizationIds ==
    [intent : IntentIds, content : Plans, status : {"AUTHORIZED", "REVOKED"}, scope : Scopes]
Commands ==
    [authorization : AuthorizationIds, intent : IntentIds, content : Plans, mode : Modes,
     created : Times, until : Times \cup {NoEnd}]

\* Neither the end of an intent nor the times of an authorization or a command are
\* in the id.
IntentId(intent) == [plan |-> intent.plan, created |-> intent.created]
AuthorizationId(a) ==
    [intent |-> a.intent, content |-> a.content, status |-> a.status, scope |-> a.scope]

\* mutant: the id has the instant of the command
CommandIdTimed(c) ==
    [authorization |-> c.authorization, intent |-> c.intent, content |-> c.content,
     mode |-> c.mode, created |-> c.created]
CommandId(c) ==
    [authorization |-> c.authorization, intent |-> c.intent, content |-> c.content,
     mode |-> c.mode]

Idle == [saves |-> "nothing"]
Saving(store, record, overwrite) ==
    [saves |-> store, record |-> record, overwrite |-> overwrite, looked |-> FALSE]

ChainTypeOK ==
    /\ now \in Times /\ intents \subseteq Intents /\ granted \subseteq AuthorizationIds
    /\ \A id \in DOMAIN authorizations :
          LET a == authorizations[id] IN
             /\ a \in Authorizations /\ AuthorizationId(a) = id
             /\ a.at <= a.from /\ a.from < a.expires
    /\ \A id \in DOMAIN commands :
          commands[id] \in Commands /\ CommandId(commands[id]) = id

-----------------------------------------------------------------------------
(* Intents and authorizations *)

\* create_from_plan, of a plan that is VALID and has a direction.
CreateIntent(plan, until) ==
    /\ until >= now
    /\ intents' = intents \cup {[plan |-> plan, created |-> now, until |-> until]}
    /\ Cardinality(intents') <= MaxIntents
    /\ UNCHANGED <<now, authorizations, commands, doing, granted>>

\* evaluate_eligibility: the rest of its conditions hold of what CreateIntent makes.
Eligible(intent) == now < intent.until

\* mutant: an authorization may end when it begins
InOrderEmpty(a, intent) ==
    /\ a.from >= a.at /\ a.expires >= a.from /\ a.expires <= intent.until

\* create_authorization's demands on the times.
InOrder(a, intent) ==
    /\ a.from >= a.at /\ a.expires > a.from /\ a.expires <= intent.until

Authorize(c, intent, a) ==
    /\ doing[c] = Idle /\ Eligible(intent) /\ InOrder(a, intent)
    /\ a.intent = IntentId(intent) /\ a.content = intent.plan
    /\ a.status = "AUTHORIZED" /\ a.at = now
    /\ granted' = granted \cup {AuthorizationId(a)}
    /\ \E overwrite \in BOOLEAN :
          doing' = [doing EXCEPT ![c] = Saving("authorization", a, overwrite)]
    /\ UNCHANGED <<now, intents, authorizations, commands>>

\* No code of the repository withdraws an authorization.  The stores and the factory
\* take a record that a caller builds with that status, of the same authorization
\* and under an id of its own.
Revoke(c, a) ==
    /\ doing[c] = Idle /\ a.status = "AUTHORIZED"
    /\ doing' = [doing EXCEPT ![c] =
                    Saving("authorization", [a EXCEPT !.status = "REVOKED"], FALSE)]
    /\ UNCHANGED <<now, intents, authorizations, commands, granted>>

-----------------------------------------------------------------------------
(* Commands *)

\* mutant: the status is not verified
BindsAny(a, intent) ==
    a.intent = IntentId(intent) /\ a.content = intent.plan

\* create_execution_command's verification of the authorization: its status and
\* what it is bound to; its times are not looked at.
Binds(a, intent) ==
    a.status = "AUTHORIZED" /\ a.intent = IntentId(intent) /\ a.content = intent.plan

CreateCommand(c, intent, a) ==
    /\ doing[c] = Idle /\ Binds(a, intent) /\ a.scope \in Modes
    /\ \E until \in now + 1..NoEnd, overwrite \in BOOLEAN :
          doing' = [doing EXCEPT ![c] = Saving("command",
             [authorization |-> AuthorizationId(a), intent |-> IntentId(intent),
              content |-> intent.plan, mode |-> a.scope, created |-> now, until |-> until],
             overwrite)]
    /\ UNCHANGED <<now, intents, authorizations, commands, granted>>

-----------------------------------------------------------------------------
(* The stores *)

\* The first half of save: a file of the id ends it, with success or an exception.
Look(c) ==
    /\ doing[c] # Idle /\ ~doing[c].looked
    /\ LET there == IF doing[c].saves = "command"
                    THEN CommandId(doing[c].record) \in DOMAIN commands
                    ELSE AuthorizationId(doing[c].record) \in DOMAIN authorizations
       IN  doing' = [doing EXCEPT ![c] = IF there /\ ~doing[c].overwrite THEN Idle
                                         ELSE [doing[c] EXCEPT !.looked = TRUE]]
    /\ UNCHANGED <<now, intents, authorizations, commands, granted>>

Put(files, id, record) ==
    [i \in DOMAIN files \cup {id} |-> IF i = id THEN record ELSE files[i]]

WriteFile(c) ==
    /\ doing[c] # Idle /\ doing[c].looked
    /\ LET record == doing[c].record IN
          \/ /\ doing[c].saves = "authorization"
             /\ authorizations' = Put(authorizations, AuthorizationId(record), record)
             /\ UNCHANGED commands
          \/ /\ doing[c].saves = "command"
             /\ commands' = Put(commands, CommandId(record), record)
             /\ UNCHANGED authorizations
    /\ doing' = [doing EXCEPT ![c] = Idle]
    /\ UNCHANGED <<now, intents, granted>>

Without(files, id) == [i \in DOMAIN files \ {id} |-> files[i]]

\* delete of either store.
DeleteAuthorization(id) ==
    /\ authorizations' = Without(authorizations, id)
    /\ UNCHANGED <<now, intents, commands, doing, granted>>
DeleteCommand(id) ==
    /\ commands' = Without(commands, id)
    /\ UNCHANGED <<now, intents, authorizations, doing, granted>>

\* The process of a caller ends, or the write fails.
Crash(c) ==
    /\ doing[c] # Idle
    /\ doing' = [doing EXCEPT ![c] = Idle]
    /\ UNCHANGED <<now, intents, authorizations, commands, granted>>

Tick ==
    /\ now < MaxTime
    /\ now' = now + 1
    /\ UNCHANGED <<intents, authorizations, commands, doing, granted>>
-----------------------------------------------------------------------------
ChainInit ==
    /\ now = 0 /\ intents = {} /\ granted = {}
    /\ authorizations = <<>> /\ commands = <<>>
    /\ doing = [c \in Callers |-> Idle]

ChainNext ==
    \/ Tick
    \/ \E plan \in Plans, until \in Times \cup {NoEnd} : CreateIntent(plan, until)
    \/ \E c \in Callers : Look(c) \/ WriteFile(c) \/ Crash(c)
    \/ \E c \in Callers, intent \in intents, scope \in Scopes, from, expires \in Times :
          Authorize(c, intent,
             [intent |-> IntentId(intent), content |-> intent.plan, status |-> "AUTHORIZED",
              scope |-> scope, at |-> now, from |-> from, expires |-> expires])
    \/ \E id \in DOMAIN authorizations : DeleteAuthorization(id)
    \/ \E id \in DOMAIN commands : DeleteCommand(id)
    \/ \E c \in Callers, id \in DOMAIN authorizations : Revoke(c, authorizations[id])
    \/ \E c \in Callers, intent \in intents, id \in DOMAIN authorizations :
          CreateCommand(c, intent, authorizations[id])

ChainSpec == ChainInit /\ [][ChainNext]_chainVars
-----------------------------------------------------------------------------
(* Properties *)

\* There is one command file at most for an authorization, however often and by
\* whom its commands are made, whatever crashes between the two files, and
\* whatever times they are given (the id leaves out what may differ).
OneCommandPerAuthorization ==
    \A i, j \in DOMAIN commands : i.authorization = j.authorization => i = j

\* Every command file goes back to an authorization that authorize granted, for
\* the intent, the content and the scope of the command; a revocation is none.
CommandsAreGranted ==
    \A id \in DOMAIN commands : LET a == id.authorization IN
        a \in granted /\ a.intent = id.intent /\ a.content = id.content /\ a.scope = id.mode

\* What the two above rest on (inductive): what a caller is still to write is of the
\* right type, and a command goes back to a grant from the moment it is made.
AuthorizationBacked(a, grants) ==
    /\ a \in Authorizations /\ a.at <= a.from /\ a.from < a.expires
    /\ a.status = "AUTHORIZED" => AuthorizationId(a) \in grants
CommandBacked(command, grants) ==
    LET a == command.authorization IN
        /\ command \in Commands /\ a \in grants
        /\ a.intent = command.intent /\ a.content = command.content /\ a.scope = command.mode
SaveBacked(save, grants) ==
    \/ save = Idle
    \/ /\ save \in [saves : {"authorization", "command"}, record : Authorizations \cup Commands,
                   overwrite : BOOLEAN, looked : BOOLEAN]
       /\ \/ save.saves = "authorization" /\ AuthorizationBacked(save.record, grants)
          \/ save.saves = "command" /\ CommandBacked(save.record, grants)
ChainInv ==
    /\ now \in Times /\ intents \subseteq Intents /\ granted \subseteq AuthorizationIds
    /\ \A id \in DOMAIN authorizations :
          /\ AuthorizationBacked(authorizations[id], granted)
          /\ AuthorizationId(authorizations[id]) = id
    /\ \A id \in DOMAIN commands :
          CommandBacked(commands[id], granted) /\ CommandId(commands[id]) = id
    /\ DOMAIN doing = Callers /\ \A c \in Callers : SaveBacked(doing[c], granted)

\* "EXPIRED: NO COMMAND - fail closed": the authorization that a command is made
\* from is in force at that instant.
ExpiredFailsClosed ==
    [][\A c \in Callers :
          doing[c] = Idle /\ doing'[c].saves = "command" =>
             LET a == authorizations[doing'[c].record.authorization]
             IN  a.from <= now /\ now < a.expires]_chainVars

\* "A caller can never silently overwrite a stored command with a different one": the
\* content of a command file changes only by a save that was told to overwrite.
NoSilentOverwrite ==
    [][\A id \in DOMAIN commands \cap DOMAIN commands' :
          commands'[id] # commands[id] =>
             \E c \in Callers : /\ doing[c].saves = "command" /\ doing'[c] = Idle
                               /\ CommandId(doing[c].record) = id /\ doing[c].overwrite]_chainVars
=============================================================================
