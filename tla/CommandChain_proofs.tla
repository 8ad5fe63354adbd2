-------------------------- MODULE CommandChain_proofs --------------------------
(***************************************************************************)
(* Proofs about CommandChain, for any number of callers, plans, scopes and *)
(* instants: the files are of their types, a command file goes back to an  *)
(* authorization that was granted, and there is one for each at most.      *)
(***************************************************************************)
EXTENDS CommandChain, TLAPS

(* Records *)

LEMMA IdsTyped ==
    /\ \A intent \in Intents : IntentId(intent) \in IntentIds
    /\ \A a \in Authorizations : AuthorizationId(a) \in AuthorizationIds
BY DEF Intents, IntentId, IntentIds, Authorizations, AuthorizationId, AuthorizationIds

\* A withdrawal has the times of the record, and needs no grant.
LEMMA WithdrawalBacked ==
    ASSUME NEW grants, NEW a, AuthorizationBacked(a, grants)
    PROVE  AuthorizationBacked([a EXCEPT !.status = "REVOKED"], grants)
BY DEF AuthorizationBacked, Authorizations

LEMMA SavingBacked ==
    ASSUME NEW grants, NEW record, NEW overwrite \in BOOLEAN
    PROVE  /\ AuthorizationBacked(record, grants) =>
                 SaveBacked(Saving("authorization", record, overwrite), grants)
           /\ CommandBacked(record, grants) =>
                 SaveBacked(Saving("command", record, overwrite), grants)
BY DEF SaveBacked, Saving, AuthorizationBacked, CommandBacked

\* A grant is never taken back, and nothing else counts.
LEMMA BackedKept ==
    ASSUME NEW before, NEW after, before \subseteq after
    PROVE  /\ \A a : AuthorizationBacked(a, before) => AuthorizationBacked(a, after)
           /\ \A command : CommandBacked(command, before) => CommandBacked(command, after)
           /\ \A save : SaveBacked(save, before) => SaveBacked(save, after)
BY DEF AuthorizationBacked, CommandBacked, SaveBacked

-----------------------------------------------------------------------------
(* Steps *)

\* A step of one caller that leaves the files alone.
LEMMA CallerStep ==
    ASSUME ChainInv, NEW c \in Callers, NEW save,
           UNCHANGED <<now, intents, authorizations, commands>>,
           granted \subseteq granted', granted' \subseteq AuthorizationIds,
           doing' = [doing EXCEPT ![c] = save], SaveBacked(save, granted')
    PROVE  ChainInv'
<1>1. \A d \in Callers : SaveBacked(doing'[d], granted')
  <2> SUFFICES ASSUME NEW d \in Callers PROVE SaveBacked(doing'[d], granted')
    OBVIOUS
  <2>1. CASE d = c
    BY <2>1 DEF ChainInv
  <2>2. CASE d # c
    BY <2>2, BackedKept DEF ChainInv
  <2> QED
    BY <2>1, <2>2
<1>2. /\ \A id \in DOMAIN authorizations : AuthorizationBacked(authorizations[id], granted')
      /\ \A id \in DOMAIN commands : CommandBacked(commands[id], granted')
  BY BackedKept DEF ChainInv
<1> QED
  BY <1>1, <1>2 DEF ChainInv

LEMMA AuthorizeStep ==
    ASSUME ChainInv, NEW c \in Callers, NEW intent \in intents, NEW scope \in Scopes,
           NEW from \in Times, NEW expires \in Times,
           Authorize(c, intent,
             [intent |-> IntentId(intent), content |-> intent.plan, status |-> "AUTHORIZED",
              scope |-> scope, at |-> now, from |-> from, expires |-> expires])
    PROVE  ChainInv'
<1> DEFINE a == [intent |-> IntentId(intent), content |-> intent.plan, status |-> "AUTHORIZED",
                 scope |-> scope, at |-> now, from |-> from, expires |-> expires]
<1>1. intent \in Intents /\ intent.plan \in Plans /\ now \in Times /\ granted \subseteq AuthorizationIds
  BY DEF ChainInv, Intents
<1>2. a \in Authorizations /\ now \in Int /\ from \in Int /\ expires \in Int
  BY <1>1, IdsTyped, ChainAssumption DEF Authorizations, Times
<1>3. AuthorizationBacked(a, granted')
  BY <1>2 DEF Authorize, InOrder, AuthorizationBacked
<1>4. PICK overwrite \in BOOLEAN : doing' = [doing EXCEPT ![c] = Saving("authorization", a, overwrite)]
  BY DEF Authorize
<1>5. SaveBacked(Saving("authorization", a, overwrite), granted')
  BY <1>3, SavingBacked
<1>6. granted \subseteq granted' /\ granted' \subseteq AuthorizationIds
  BY <1>1, <1>2, IdsTyped DEF Authorize
<1>7. UNCHANGED <<now, intents, authorizations, commands>>
  BY DEF Authorize
<1> QED
  BY <1>4, <1>5, <1>6, <1>7, CallerStep

LEMMA RevokeStep ==
    ASSUME ChainInv, NEW c \in Callers, NEW id \in DOMAIN authorizations,
           Revoke(c, authorizations[id])
    PROVE  ChainInv'
<1> DEFINE a == [authorizations[id] EXCEPT !.status = "REVOKED"]
<1>1. AuthorizationBacked(a, granted)
  BY WithdrawalBacked DEF ChainInv
<1>2. SaveBacked(Saving("authorization", a, FALSE), granted)
  BY <1>1, SavingBacked
<1> QED
  BY <1>2, CallerStep DEF Revoke, ChainInv

\* create_execution_command looks at the status, so what it binds is a grant.
LEMMA CreateCommandStep ==
    ASSUME ChainInv, NEW c \in Callers, NEW intent \in intents,
           NEW id \in DOMAIN authorizations,
           CreateCommand(c, intent, authorizations[id])
    PROVE  ChainInv'
<1> DEFINE a == authorizations[id]
           command(until) ==
             [authorization |-> AuthorizationId(a), intent |-> IntentId(intent),
              content |-> intent.plan, mode |-> a.scope, created |-> now, until |-> until]
<1>1. /\ intent \in Intents /\ now \in Times /\ AuthorizationBacked(a, granted)
      /\ AuthorizationId(a) \in granted /\ granted \subseteq AuthorizationIds
  BY DEF ChainInv, CreateCommand, Binds, AuthorizationBacked
<1>2. PICK until \in now + 1..NoEnd, overwrite \in BOOLEAN :
         doing' = [doing EXCEPT ![c] = Saving("command", command(until), overwrite)]
  BY DEF CreateCommand
<1>3. until \in Times \cup {NoEnd}
  BY <1>1, <1>2, ChainAssumption DEF Times, NoEnd
<1>4. CommandBacked(command(until), granted)
  <2>1. command(until) \in Commands
    BY <1>1, <1>3, IdsTyped DEF Commands, Intents, CreateCommand
  <2> QED
    BY <1>1, <2>1 DEF CommandBacked, CreateCommand, Binds, AuthorizationId
<1>5. SaveBacked(Saving("command", command(until), overwrite), granted)
  BY <1>4, SavingBacked
<1>6. UNCHANGED <<now, intents, authorizations, commands, granted>>
  BY DEF CreateCommand
<1>7. granted \subseteq granted' /\ granted' \subseteq AuthorizationIds
      /\ SaveBacked(Saving("command", command(until), overwrite), granted')
  BY <1>1, <1>5, <1>6
<1> HIDE DEF command
<1> QED
  BY <1>2, <1>6, <1>7, CallerStep

LEMMA LookStep ==
    ASSUME ChainInv, NEW c \in Callers, Look(c)
    PROVE  ChainInv'
<1>1. SaveBacked(doing[c], granted)
  BY DEF ChainInv
<1>2. PICK save \in {Idle, [doing[c] EXCEPT !.looked = TRUE]} : doing' = [doing EXCEPT ![c] = save]
  BY DEF Look
<1>3. SaveBacked([doing[c] EXCEPT !.looked = TRUE], granted)
  <2> DEFINE Saves == [saves : {"authorization", "command"}, record : Authorizations \cup Commands,
                       overwrite : BOOLEAN, looked : BOOLEAN]
             looking == [doing[c] EXCEPT !.looked = TRUE]
  <2>1. doing[c] \in Saves
    BY <1>1 DEF SaveBacked, Look
  <2>2. looking \in Saves /\ looking.saves = doing[c].saves /\ looking.record = doing[c].record
    BY <2>1
  <2> HIDE DEF looking
  <2>3. SaveBacked(looking, granted)
    BY <1>1, <2>2 DEF SaveBacked, Look
  <2> QED
    BY <2>3 DEF looking
<1>4. SaveBacked(save, granted)
  BY <1>2, <1>3 DEF SaveBacked
<1> QED
  BY <1>2, <1>4, CallerStep DEF Look, ChainInv

LEMMA CrashStep ==
    ASSUME ChainInv, NEW c \in Callers, Crash(c)
    PROVE  ChainInv'
<1>1. SaveBacked(Idle, granted)
  BY DEF SaveBacked
<1> QED
  BY <1>1, CallerStep DEF Crash, ChainInv

\* A file is written under the id of what it says, over another one or not.
LEMMA WriteFileStep ==
    ASSUME ChainInv, NEW c \in Callers, WriteFile(c)
    PROVE  ChainInv'
<1> DEFINE record == doing[c].record
<1>1. SaveBacked(doing[c], granted) /\ doing[c] # Idle
  BY DEF ChainInv, WriteFile
<1>2. DOMAIN doing' = Callers /\ \A d \in Callers : SaveBacked(doing'[d], granted)
  BY DEF ChainInv, WriteFile, SaveBacked
<1>3. CASE doing[c].saves = "authorization"
  <2>1. authorizations' = Put(authorizations, AuthorizationId(record), record) /\ commands' = commands
    BY <1>3 DEF WriteFile
  <2>2. AuthorizationBacked(record, granted)
    BY <1>1, <1>3 DEF SaveBacked
  <2>3. \A id \in DOMAIN authorizations' :
           AuthorizationBacked(authorizations'[id], granted) /\ AuthorizationId(authorizations'[id]) = id
    BY <2>1, <2>2 DEF Put, ChainInv
  <2> QED
    BY <1>2, <2>1, <2>3 DEF ChainInv, WriteFile
<1>4. CASE doing[c].saves = "command"
  <2>1. commands' = Put(commands, CommandId(record), record) /\ authorizations' = authorizations
    BY <1>4 DEF WriteFile
  <2>2. CommandBacked(record, granted)
    BY <1>1, <1>4 DEF SaveBacked
  <2>3. \A id \in DOMAIN commands' :
           CommandBacked(commands'[id], granted) /\ CommandId(commands'[id]) = id
    BY <2>1, <2>2 DEF Put, ChainInv
  <2> QED
    BY <1>2, <2>1, <2>3 DEF ChainInv, WriteFile
<1> QED
  BY <1>1, <1>3, <1>4 DEF SaveBacked

LEMMA ChainStep == ChainInv /\ [ChainNext]_chainVars => ChainInv'
<1> SUFFICES ASSUME ChainInv, [ChainNext]_chainVars PROVE ChainInv'
  OBVIOUS
<1>1. CASE Tick
  BY <1>1, ChainAssumption DEF Tick, ChainInv, Times
<1>2. ASSUME NEW plan \in Plans, NEW until \in Times \cup {NoEnd}, CreateIntent(plan, until)
      PROVE  ChainInv'
  BY <1>2 DEF CreateIntent, ChainInv, Intents
<1>3. ASSUME NEW c \in Callers, Look(c) \/ WriteFile(c) \/ Crash(c)
      PROVE  ChainInv'
  BY <1>3, LookStep, WriteFileStep, CrashStep
<1>4. ASSUME NEW c \in Callers, NEW intent \in intents, NEW scope \in Scopes,
             NEW from \in Times, NEW expires \in Times,
             Authorize(c, intent,
               [intent |-> IntentId(intent), content |-> intent.plan, status |-> "AUTHORIZED",
                scope |-> scope, at |-> now, from |-> from, expires |-> expires])
      PROVE  ChainInv'
  BY <1>4, AuthorizeStep
<1>5. ASSUME NEW id \in DOMAIN authorizations, DeleteAuthorization(id)
      PROVE  ChainInv'
  BY <1>5 DEF DeleteAuthorization, Without, ChainInv
<1>6. ASSUME NEW id \in DOMAIN commands, DeleteCommand(id)
      PROVE  ChainInv'
  BY <1>6 DEF DeleteCommand, Without, ChainInv
<1>7. ASSUME NEW c \in Callers, NEW id \in DOMAIN authorizations, Revoke(c, authorizations[id])
      PROVE  ChainInv'
  BY <1>7, RevokeStep
<1>8. ASSUME NEW c \in Callers, NEW intent \in intents, NEW id \in DOMAIN authorizations,
             CreateCommand(c, intent, authorizations[id])
      PROVE  ChainInv'
  BY <1>8, CreateCommandStep
<1>9. CASE UNCHANGED chainVars
  BY <1>9 DEF chainVars, ChainInv
<1> QED
  BY <1>1, <1>2, <1>3, <1>4, <1>5, <1>6, <1>7, <1>8, <1>9 DEF ChainNext

LEMMA ChainInvariant == ChainSpec => []ChainInv
<1>1. ChainInit => ChainInv
  <2> SUFFICES ASSUME ChainInit PROVE ChainInv
    OBVIOUS
  <2>1. DOMAIN authorizations = {} /\ DOMAIN commands = {}
    BY DEF ChainInit
  <2> QED
    BY <2>1, ChainAssumption DEF ChainInit, ChainInv, SaveBacked, Times
<1> QED
  BY <1>1, ChainStep, PTL DEF ChainSpec

-----------------------------------------------------------------------------
(* What follows *)

\* Every file has the type of its store and lies under the id of what it says,
\* and no authorization ends before it begins.
THEOREM ChainTypeCorrect == ChainSpec => []ChainTypeOK
<1>1. ChainInv => ChainTypeOK
  BY DEF ChainInv, ChainTypeOK, AuthorizationBacked, CommandBacked
<1> QED
  BY <1>1, ChainInvariant, PTL

\* A command file goes back to a grant for the same intent, content and scope.
THEOREM GrantsBehindCommands == ChainSpec => []CommandsAreGranted
<1>1. ChainInv => CommandsAreGranted
  BY DEF ChainInv, CommandsAreGranted, CommandBacked, CommandId
<1> QED
  BY <1>1, ChainInvariant, PTL

\* An authorization has one command file at most: the rest of a command's id is
\* in the authorization's, so callers who write at a time write the same file.
THEOREM OneCommandEach == ChainSpec => []OneCommandPerAuthorization
<1>1. ChainInv => OneCommandPerAuthorization
  BY DEF ChainInv, OneCommandPerAuthorization, CommandBacked, CommandId, Commands
<1> QED
  BY <1>1, ChainInvariant, PTL
=============================================================================
