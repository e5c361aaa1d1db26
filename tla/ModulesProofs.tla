----------------------------- MODULE ModulesProofs -----------------------------
(***************************************************************************)
(* What holds of imports for every set of files and lines: a file is read  *)
(* once in a session, names are bound to the modules that have them, and   *)
(* the type checker's recursion ends unless imports run in a circle.       *)
(***************************************************************************)
EXTENDS Modules, DataLemmas, TLAPS

-----------------------------------------------------------------------------
(* The files that are read.                                                *)

\* The module at path is being checked.
Saving(path) == \E k \in InProgress : agenda[k].path = path

\* Every file that has been read is in the cache, or will be when the import that
\* read it ends.  Outside a type check no import is in progress.
LoadsAreKept ==
  \A l \in Range(loads) :
    \/ l.path \in DOMAIN module_env
    \/ phase = "check" /\ Saving(l.path)

LoadsInv ==
  /\ program \in Programs
  /\ input \in Nat
  /\ IsSequence(loads)
  /\ phase = "check" => IsSequence(agenda)
  /\ phase \in {"idle", "check", "generate"} => LoadsAreKept

LEMMA InitLoadsInv == Init => LoadsInv
<1> SUFFICES ASSUME Init PROVE LoadsInv
  OBVIOUS
<1>1. loads = <<>> /\ Range(loads) = {}
  <2>1. DOMAIN <<>> = {}
    OBVIOUS
  <2>2. loads = <<>>
    BY DEF Init
  <2>3. QED
    BY <2>1, <2>2 DEF Range
<1>2. QED
  BY <1>1, EmptyIsSequence DEF Init, LoadsInv, LoadsAreKept

\* An import in progress stays so while the work before its end is done.
LEMMA WorkKeepsSaving ==
  ASSUME IsSequence(agenda), agenda # <<>>, Task.do # "save",
         NEW tasks, IsSequence(tasks), agenda' = tasks \o Tail(agenda)
  PROVE  /\ IsSequence(agenda)'
         /\ \A path : Saving(path) => Saving(path)'
<1>1. /\ IsSequence(Tail(agenda))
      /\ Task = agenda[1]
      /\ \A i \in DOMAIN agenda :
           i # 1 => i - 1 \in DOMAIN Tail(agenda) /\ Tail(agenda)[i - 1] = agenda[i]
  BY TailShifts DEF Task
<1>2. /\ IsSequence(agenda')
      /\ \A i \in DOMAIN Tail(agenda) :
           Len(tasks) + i \in DOMAIN agenda' /\ agenda'[Len(tasks) + i] = Tail(agenda)[i]
  BY <1>1, Prefixed
<1>3. ASSUME NEW path, Saving(path) PROVE Saving(path)'
  <2>1. PICK k \in DOMAIN agenda : agenda[k].do = "save" /\ agenda[k].path = path
    BY <1>3 DEF Saving, InProgress
  <2>2. k # 1
    BY <1>1, <2>1
  <2>3. /\ Len(tasks) + (k - 1) \in DOMAIN agenda'
        /\ agenda'[Len(tasks) + (k - 1)] = agenda[k]
    BY <1>1, <1>2, <2>2
  <2>4. QED
    BY <2>1, <2>3 DEF Saving, InProgress
<1>4. QED
  BY <1>2, <1>3 DEF IsSequence

\* A step of the type checker that reads no file and saves no module.
LEMMA CheckingKeepsLoadsInv ==
  ASSUME LoadsInv, phase = "check", agenda # <<>>, Task.do # "save", Then(<<>>),
         UNCHANGED <<session, phase, loads, module_env>>
  PROVE  LoadsInv'
<1>1. /\ IsSequence(agenda)'
      /\ \A path : Saving(path) => Saving(path)'
  BY EmptyIsSequence, WorkKeepsSaving DEF LoadsInv, Then
<1>2. LoadsAreKept'
  BY <1>1 DEF LoadsInv, LoadsAreKept
<1>3. QED
  BY <1>1, <1>2 DEF LoadsInv, session, IsSequence

\* The tasks that check a text are a sequence.
LEMMA EachIsSequence ==
  ASSUME program \in Programs, NEW u \in DOMAIN program.texts, NEW do
  PROVE  IsSequence(Each(do, u))
<1>1. Text(u) \in Seq(Range(Text(u)))
  BY ProgramsAssumption DEF Text
<1>2. Each(do, u) \in Seq(Range(Each(do, u)))
  BY <1>1 DEF Each, Range
<1>3. QED
  BY <1>2 DEF IsSequence

\* An import that reads a file leaves its save behind the tasks of the module.
LEMMA LoadModuleInv == ASSUME LoadsInv, LoadModule PROVE LoadsInv'
<1> PICK file : file = Imported
  OBVIOUS
<1> PICK load : load = [by |-> Here, path |-> file]
  OBVIOUS
<1> PICK save : save = Todo("save", Task.text, Task.at, file)
  OBVIOUS
<1> DEFINE ends == <<Todo("solve", file, 0, file), save>>
           tasks == Each("check", file) \o ends
<1>1. /\ phase = "check" /\ agenda # <<>> /\ Task.do # "save"
      /\ agenda' = tasks \o Tail(agenda)
      /\ loads' = Append(loads, load)
      /\ UNCHANGED <<program, input, phase, module_env>>
      /\ file \in DOMAIN program.texts
  BY DEF LoadModule, At, Doing, Then, OnlyChecks, session, Files
<1>2. IsSequence(ends) /\ 2 \in DOMAIN ends /\ ends[2] = save
  BY PairIsSequence
<1>3. IsSequence(Each("check", file))
  BY <1>1, EachIsSequence DEF LoadsInv
<1> HIDE DEF ends
<1>4. PICK k \in DOMAIN tasks : tasks[k] = save
  <2>1. LET k == Len(Each("check", file)) + 2 IN k \in DOMAIN tasks /\ tasks[k] = save
    BY <1>2, <1>3, Prefixed
  <2>2. QED
    BY <2>1
<1>5. IsSequence(tasks)
  BY <1>2, <1>3, Prefixed
<1> HIDE DEF tasks
<1>6. /\ IsSequence(agenda)'
      /\ \A path : Saving(path) => Saving(path)'
  BY <1>1, <1>5, WorkKeepsSaving DEF LoadsInv
<1>7. Saving(file)'
  <2>1. IsSequence(Tail(agenda))
    BY <1>1, TailShifts DEF LoadsInv
  <2>2. k \in DOMAIN agenda' /\ agenda'[k] = save
    BY <1>1, <1>4, <1>5, <2>1, Prefixed
  <2>3. save.do = "save" /\ save.path = file
    BY DEF Todo
  <2>4. QED
    BY <2>2, <2>3 DEF Saving, InProgress
<1>8. /\ IsSequence(loads')
      /\ Range(loads') = Range(loads) \cup {load}
      /\ load.path = file
  BY <1>1, AppendIsSequence DEF LoadsInv
<1>9. LoadsAreKept'
  BY <1>1, <1>6, <1>7, <1>8 DEF LoadsInv, LoadsAreKept
<1>10. QED
  BY <1>1, <1>6, <1>8, <1>9 DEF LoadsInv, IsSequence

\* The end of an import caches the file it read.
LEMMA SaveModuleInv == ASSUME LoadsInv, SaveModule PROVE LoadsInv'
<1> PICK file : file = Task.path
  OBVIOUS
<1>1. /\ phase = "check" /\ agenda # <<>>
      /\ agenda' = <<>> \o Tail(agenda)
      /\ module_env' = Extended(module_env, file, Cached)
      /\ UNCHANGED <<program, input, phase, loads>>
  BY DEF SaveModule, save_module, Doing, Then, OnlyChecks, session
<1>2. DOMAIN module_env' = DOMAIN module_env \cup {file}
  BY <1>1 DEF Extended
<1>3. /\ IsSequence(Tail(agenda))
      /\ Task = agenda[1]
      /\ \A i \in DOMAIN agenda :
           i # 1 => i - 1 \in DOMAIN Tail(agenda) /\ Tail(agenda)[i - 1] = agenda[i]
  BY <1>1, TailShifts DEF LoadsInv, Task
<1>4. agenda' = Tail(agenda)
  BY <1>1, <1>3 DEF IsSequence
<1>5. ASSUME NEW path, path # file, Saving(path) PROVE Saving(path)'
  <2>1. PICK k \in DOMAIN agenda : agenda[k].do = "save" /\ agenda[k].path = path
    BY <1>5 DEF Saving, InProgress
  <2>2. k # 1
    BY <1>3, <1>5, <2>1
  <2>3. k - 1 \in DOMAIN agenda' /\ agenda'[k - 1] = agenda[k]
    BY <1>3, <1>4, <2>2
  <2>4. QED
    BY <2>1, <2>3 DEF Saving, InProgress
<1>6. LoadsAreKept'
  BY <1>1, <1>2, <1>5 DEF LoadsInv, LoadsAreKept
<1>7. QED
  BY <1>1, <1>3, <1>4, <1>6 DEF LoadsInv, IsSequence

LEMMA TypeCheckInv == ASSUME LoadsInv, TypeCheck PROVE LoadsInv'
<1>1. CASE CheckBinding
  BY <1>1, CheckingKeepsLoadsInv DEF CheckBinding, At, Doing, OnlyChecks, NoImport
<1>2. CASE CheckMember
  BY <1>2, CheckingKeepsLoadsInv DEF CheckMember, At, Doing, OnlyChecks, NoImport
<1>3. CASE CheckIllTyped
  BY <1>3, CheckingKeepsLoadsInv DEF CheckIllTyped, At, Doing, OnlyChecks, NoImport
<1>4. CASE ImportCached
  BY <1>4, CheckingKeepsLoadsInv DEF ImportCached, At, Doing, OnlyChecks
<1>5. CASE LoadModule
  BY <1>5, LoadModuleInv
<1>6. CASE ImportFails
  BY <1>6 DEF ImportFails, Stop, LoadsInv, session, IsSequence
<1>7. CASE Solve
  BY <1>7, CheckingKeepsLoadsInv DEF Solve, Doing, OnlyChecks, NoImport
<1>8. CASE SaveModule
  BY <1>8, SaveModuleInv
<1>9. QED
  BY <1>1, <1>2, <1>3, <1>4, <1>5, <1>6, <1>7, <1>8 DEF TypeCheck

\* Code generation reads no file and leaves the cache as large as it was.
LEMMA GenerateInv == ASSUME LoadsInv, Generate PROVE LoadsInv'
<1>1. ASSUME phase = "generate",
             UNCHANGED <<program, input, loads>>,
             DOMAIN module_env' = DOMAIN module_env,
             phase' \in {"generate", "exited", "undefined"}
      PROVE  LoadsInv'
  BY <1>1 DEF LoadsInv, LoadsAreKept, IsSequence
<1>2. CASE GenLet \/ GenOther \/ GenMember \/ GenImportLinked \/ GenImport
  BY <1>1, <1>2 DEF GenLet, GenOther, GenMember, GenImportLinked, GenImport, At, Doing,
                    OnlyGenerates, session
<1>3. CASE GenUntyped \/ GenMissingMember \/ GenImportFails \/ LinkFails \/ BindFails
  BY <1>1, <1>3 DEF GenUntyped, GenMissingMember, GenImportFails, LinkFails, BindFails, At,
                    Doing, Stop, session
<1>4. CASE LinkModule
  <2>1. /\ phase = "generate" /\ UNCHANGED <<program, input, loads, phase>>
        /\ \E entry : module_env' = [module_env EXCEPT ![Task.path] = entry]
    BY <1>4 DEF LinkModule, Doing, OnlyGenerates, session
  <2>2. DOMAIN module_env' = DOMAIN module_env
    BY <2>1
  <2>3. QED
    BY <1>1, <2>1, <2>2
<1>5. QED
  BY <1>2, <1>3, <1>4 DEF Generate

LEMMA NextLoadsInv == LoadsInv /\ [Next]_vars => LoadsInv'
<1> SUFFICES ASSUME LoadsInv, [Next]_vars PROVE LoadsInv'
  OBVIOUS
<1>1. CASE ReadInput
  <2>1. /\ phase = "idle" /\ phase' = "check"
        /\ UNCHANGED <<program, loads, module_env>>
        /\ input' = input + 1 /\ input < Len(program.inputs)
    BY <1>1 DEF ReadInput
  <2> PICK u : u = program.inputs[input']
    OBVIOUS
  <2> PICK solve : solve = Todo("solve", u, 0, u)
    OBVIOUS
  <2>2. agenda' = Each("check", u) \o <<solve>>
    BY <1>1 DEF ReadInput
  <2>3. u \in DOMAIN program.texts
    BY <2>1, ProgramsAssumption DEF LoadsInv
  <2>4. IsSequence(Each("check", u)) /\ IsSequence(<<solve>>)
    <3>1. <<solve>> \in Seq({solve})
      OBVIOUS
    <3>2. QED
      BY <2>3, <3>1, EachIsSequence, SequenceOf DEF LoadsInv
  <2>5. IsSequence(agenda')
    BY <2>2, <2>4, Prefixed
  <2>6. LoadsAreKept'
    BY <2>1 DEF LoadsInv, LoadsAreKept
  <2>7. QED
    BY <2>1, <2>5, <2>6 DEF LoadsInv, IsSequence
<1>2. CASE TypeCheck
  BY <1>2, TypeCheckInv
<1>3. CASE Reject \/ Accept
  <2>1. /\ phase = "check" /\ agenda = <<>>
        /\ phase' \in {"idle", "generate"}
        /\ UNCHANGED <<program, input, loads, module_env>>
    BY <1>3 DEF Reject, Accept, session
  <2>2. \A path : ~Saving(path)
    BY <2>1 DEF Saving, InProgress
  <2>3. QED
    BY <2>1, <2>2 DEF LoadsInv, LoadsAreKept, IsSequence
<1>4. CASE Generate
  BY <1>4, GenerateInv
<1>5. CASE EndInput
  BY <1>5 DEF EndInput, LoadsInv, LoadsAreKept, session, IsSequence
<1>6. CASE UNCHANGED vars
  BY <1>6 DEF vars, session, LoadsInv, LoadsAreKept, IsSequence, Saving, InProgress
<1>7. QED
  BY <1>1, <1>2, <1>3, <1>4, <1>5, <1>6 DEF Next

LEMMA LoadsInvariance == Spec => []LoadsInv
BY InitLoadsInv, NextLoadsInv, PTL DEF Spec

-----------------------------------------------------------------------------
(* The agenda of a type check.                                             *)

Saves(tasks) == {k \in DOMAIN tasks : tasks[k].do = "save"}

\* The tasks before the end of an import are those of the module imported, and of the
\* imports that the module has in progress.
Nested(tasks) ==
  \A k \in Saves(tasks) : \A j \in 1 .. k - 1 :
    \/ tasks[j].text = tasks[k].path
    \/ \E m \in Saves(tasks) : j < m /\ m < k /\ tasks[m].text = tasks[k].path

\* The statements of a text are checked in their order, an import where it stands.
InOrder(tasks) ==
  \A j \in DOMAIN tasks : \A m \in 1 .. j - 1 :
    tasks[j].do = "check" /\ (\A l \in Saves(tasks) : ~(m < l /\ l < j)) =>
      tasks[m].do # "solve" /\ tasks[m].text = tasks[j].text /\ tasks[m].at < tasks[j].at

\* The shape of what is left when a task is done.
LEMMA RestOf ==
  ASSUME NEW tasks, IsSequence(tasks), tasks # <<>>
  PROVE  /\ IsSequence(Tail(tasks)) /\ Head(tasks) = tasks[1]
         /\ Len(tasks) \in Nat \ {0} /\ DOMAIN tasks = 1 .. Len(tasks)
         /\ DOMAIN Tail(tasks) = 1 .. Len(tasks) - 1
         /\ \A i \in 1 .. Len(tasks) - 1 : Tail(tasks)[i] = tasks[i + 1]
<1>1. IsSequence(Tail(tasks)) /\ Head(tasks) = tasks[1]
  BY TailShifts
<1>2. QED
  BY <1>1 DEF IsSequence

LEMMA RestKeepsOrder ==
  ASSUME NEW tasks, IsSequence(tasks), tasks # <<>>, Nested(tasks), InOrder(tasks)
  PROVE  Nested(Tail(tasks)) /\ InOrder(Tail(tasks))
<1> DEFINE n == Len(tasks)
<1> PICK rest : rest = Tail(tasks)
  OBVIOUS
<1>1. /\ n \in Nat /\ DOMAIN tasks = 1 .. n /\ DOMAIN rest = 1 .. n - 1
      /\ \A i \in 1 .. n - 1 : rest[i] = tasks[i + 1]
  BY RestOf
<1> HIDE DEF n
<1>2. /\ \A k \in Saves(rest) : k \in 1 .. n - 1 /\ k + 1 \in Saves(tasks)
      /\ \A k \in Saves(tasks) : k # 1 => k \in 1 .. n /\ k - 1 \in Saves(rest)
  BY <1>1 DEF Saves
<1>3. ASSUME NEW k \in Saves(rest), NEW j \in 1 .. k - 1
      PROVE  \/ rest[j].text = rest[k].path
             \/ \E m \in Saves(rest) : j < m /\ m < k /\ rest[m].text = rest[k].path
  <2>1. k \in 1 .. n - 1 /\ k + 1 \in Saves(tasks) /\ j + 1 \in 1 .. (k + 1) - 1 /\ j \in 1 .. n - 1
    BY <1>1, <1>2
  <2>2. rest[j] = tasks[j + 1] /\ rest[k] = tasks[k + 1]
    BY <1>1, <2>1
  <2>3. CASE tasks[j + 1].text = tasks[k + 1].path
    BY <2>2, <2>3
  <2>4. ASSUME NEW m \in Saves(tasks), j + 1 < m, m < k + 1, tasks[m].text = tasks[k + 1].path
        PROVE  \E l \in Saves(rest) : j < l /\ l < k /\ rest[l].text = rest[k].path
    <3>1. m \in 1 .. n /\ m # 1 /\ m - 1 \in Saves(rest)
      BY <1>1, <1>2, <2>1, <2>4 DEF Saves
    <3>2. m - 1 \in 1 .. n - 1 /\ j < m - 1 /\ m - 1 < k /\ (m - 1) + 1 = m
      BY <1>1, <2>1, <2>4, <3>1
    <3>3. rest[m - 1] = tasks[m]
      BY <1>1, <3>2
    <3>4. QED
      BY <2>2, <2>4, <3>1, <3>2, <3>3
  <2>5. QED
    BY <2>1, <2>3, <2>4 DEF Nested
<1>4. ASSUME NEW j \in DOMAIN rest, NEW m \in 1 .. j - 1,
             rest[j].do = "check", \A l \in Saves(rest) : ~(m < l /\ l < j)
      PROVE  rest[m].do # "solve" /\ rest[m].text = rest[j].text /\ rest[m].at < rest[j].at
  <2>1. /\ j \in 1 .. n - 1 /\ m \in 1 .. n - 1
        /\ j + 1 \in DOMAIN tasks /\ m + 1 \in 1 .. (j + 1) - 1
    BY <1>1
  <2>2. rest[j] = tasks[j + 1] /\ rest[m] = tasks[m + 1]
    BY <1>1, <2>1
  <2>3. ASSUME NEW l \in Saves(tasks), m + 1 < l, l < j + 1 PROVE FALSE
    <3>1. l \in 1 .. n /\ l # 1 /\ l - 1 \in Saves(rest)
      BY <1>1, <1>2, <2>1, <2>3 DEF Saves
    <3>2. m < l - 1 /\ l - 1 < j
      BY <2>1, <2>3, <3>1
    <3>3. QED
      BY <1>4, <3>1, <3>2
  <2>4. QED
    BY <1>4, <2>1, <2>2, <2>3 DEF InOrder
<1>5. QED
  BY <1>3, <1>4 DEF Nested, InOrder

\* The tasks of an import that reads file, made by task: the last of them ends it.
IsEntry(entry, task, file) ==
  /\ IsSequence(entry) /\ entry # <<>>
  /\ Saves(entry) = {Len(entry)}
  /\ entry[Len(entry)].text = task.text
  /\ entry[Len(entry)].at = task.at
  /\ entry[Len(entry)].path = file
  /\ \A i \in 1 .. Len(entry) - 1 : entry[i].text = file
  /\ \A j \in 1 .. Len(entry) - 1 : \A i \in 1 .. j - 1 :
       entry[j].do = "check" => entry[i].do # "solve" /\ entry[i].at < entry[j].at

\* The shape of the agenda when an import begins.
LEMMA Entered ==
  ASSUME NEW tasks, IsSequence(tasks), tasks # <<>>,
         NEW entry, IsSequence(entry), entry # <<>>
  PROVE  LET all == entry \o Tail(tasks)
             n == Len(entry)
         IN  /\ IsSequence(all) /\ n \in Nat \ {0} /\ DOMAIN entry = 1 .. n
             /\ Len(tasks) \in Nat \ {0} /\ DOMAIN tasks = 1 .. Len(tasks)
             /\ DOMAIN all = 1 .. n + Len(tasks) - 1
             /\ \A i \in 1 .. n : all[i] = entry[i]
             /\ \A i \in 2 .. Len(tasks) : all[n + i - 1] = tasks[i]
<1> DEFINE X == Range(entry) \cup Range(Tail(tasks))
           all == entry \o Tail(tasks)
           n == Len(entry)
<1>1. /\ IsSequence(Tail(tasks)) /\ Len(tasks) \in Nat \ {0} /\ DOMAIN tasks = 1 .. Len(tasks)
      /\ DOMAIN Tail(tasks) = 1 .. Len(tasks) - 1
      /\ \A i \in 1 .. Len(tasks) - 1 : Tail(tasks)[i] = tasks[i + 1]
  BY RestOf
<1>2. entry \in Seq(X) /\ Tail(tasks) \in Seq(X)
  BY <1>1, SeqMonotonic DEF IsSequence
<1> HIDE DEF X
<1>3. /\ all \in Seq(X) /\ Len(all) = n + Len(Tail(tasks))
      /\ \A i \in 1 .. n : all[i] = entry[i]
      /\ \A i \in 1 .. Len(Tail(tasks)) : all[n + i] = Tail(tasks)[i]
  BY <1>2, Joined
<1>4. n \in Nat \ {0} /\ DOMAIN entry = 1 .. n /\ Len(Tail(tasks)) = Len(tasks) - 1
  BY <1>1, <1>2
<1> HIDE DEF all, n
<1>5. DOMAIN all = 1 .. n + Len(tasks) - 1 /\ IsSequence(all)
  <2>1. DOMAIN all = 1 .. Len(all)
    BY <1>3
  <2>2. Len(all) = n + Len(tasks) - 1
    BY <1>1, <1>3, <1>4
  <2>3. IsSequence(all)
    BY <1>3, SequenceOf
  <2>4. QED
    BY <2>1, <2>2, <2>3
<1>6. ASSUME NEW i \in 2 .. Len(tasks) PROVE all[n + i - 1] = tasks[i]
  <2>1. i - 1 \in 1 .. Len(tasks) - 1 /\ (i - 1) + 1 = i /\ n + (i - 1) = n + i - 1
    BY <1>1, <1>4
  <2>2. QED
    BY <1>1, <1>3, <1>4, <2>1
<1>7. QED
  BY <1>1, <1>3, <1>4, <1>5, <1>6 DEF all, n

LEMMA EntryKeepsOrder ==
  ASSUME NEW tasks, IsSequence(tasks), tasks # <<>>, Nested(tasks), InOrder(tasks),
         tasks[1].do = "check",
         NEW entry, NEW file, IsEntry(entry, tasks[1], file)
  PROVE  Nested(entry \o Tail(tasks)) /\ InOrder(entry \o Tail(tasks))
<1> DEFINE n == Len(entry)
           l == Len(tasks)
<1> PICK all : all = entry \o Tail(tasks)
  OBVIOUS
<1>1. /\ n \in Nat \ {0} /\ l \in Nat \ {0}
      /\ DOMAIN entry = 1 .. n /\ DOMAIN tasks = 1 .. l /\ DOMAIN all = 1 .. n + l - 1
      /\ \A i \in 1 .. n : all[i] = entry[i]
      /\ \A i \in 2 .. l : all[n + i - 1] = tasks[i]
  BY Entered DEF IsEntry
<1>2. /\ Saves(entry) = {n}
      /\ entry[n].text = tasks[1].text /\ entry[n].at = tasks[1].at /\ entry[n].path = file
      /\ \A i \in 1 .. n - 1 : entry[i].text = file
      /\ \A j \in 1 .. n - 1 : \A i \in 1 .. j - 1 :
           entry[j].do = "check" => entry[i].do # "solve" /\ entry[i].at < entry[j].at
  BY DEF IsEntry
<1> HIDE DEF n, l
<1>3. \A k \in DOMAIN all : k > n => k - n + 1 \in 2 .. l /\ all[k] = tasks[k - n + 1]
  <2> SUFFICES ASSUME NEW k \in DOMAIN all, k > n
               PROVE  k - n + 1 \in 2 .. l /\ all[k] = tasks[k - n + 1]
    OBVIOUS
  <2>1. k - n + 1 \in 2 .. l /\ n + (k - n + 1) - 1 = k
    BY <1>1
  <2>2. QED
    BY <1>1, <2>1
<1>4. /\ n \in Saves(all) /\ entry[n].do = "save"
      /\ \A k \in Saves(all) : k = n \/ (k > n /\ k - n + 1 \in Saves(tasks))
      /\ \A k \in Saves(tasks) : k # 1 /\ k \in 2 .. l /\ n + k - 1 \in Saves(all)
  <2>1. n \in DOMAIN entry /\ entry[n].do = "save"
    BY <1>1, <1>2 DEF Saves
  <2>2. n \in 1 .. n + l - 1 /\ n \in 1 .. n
    BY <1>1
  <2>3. n \in Saves(all)
    BY <1>1, <2>1, <2>2 DEF Saves
  <2>4. ASSUME NEW k \in Saves(all), k # n PROVE k > n /\ k - n + 1 \in Saves(tasks)
    <3>1. k \in DOMAIN all /\ all[k].do = "save"
      BY DEF Saves
    <3>2. k > n
      <4>1. ASSUME k \in 1 .. n PROVE FALSE
        <5>1. k \in Saves(entry)
          BY <1>1, <3>1, <4>1 DEF Saves
        <5>2. QED
          BY <1>2, <2>4, <5>1
      <4>2. QED
        BY <1>1, <3>1, <4>1
    <3>3. k - n + 1 \in DOMAIN tasks /\ tasks[k - n + 1].do = "save"
      BY <1>1, <1>3, <3>1, <3>2
    <3>4. QED
      BY <3>2, <3>3 DEF Saves
  <2>5. ASSUME NEW k \in Saves(tasks) PROVE k # 1 /\ k \in 2 .. l /\ n + k - 1 \in Saves(all)
    <3>1. k \in 1 .. l /\ tasks[k].do = "save"
      BY <1>1 DEF Saves
    <3>2. k # 1
      BY <3>1
    <3>3. k \in 2 .. l /\ n + k - 1 \in 1 .. n + l - 1
      BY <1>1, <3>1, <3>2
    <3>4. all[n + k - 1] = tasks[k]
      BY <1>1, <3>3
    <3>5. QED
      BY <1>1, <3>1, <3>2, <3>3, <3>4 DEF Saves
  <2>6. QED
    BY <2>1, <2>3, <2>4, <2>5
<1>5. ASSUME NEW k \in Saves(all), NEW j \in 1 .. k - 1
      PROVE  \/ all[j].text = all[k].path
             \/ \E m \in Saves(all) : j < m /\ m < k /\ all[m].text = all[k].path
  <2>1. k \in 1 .. n + l - 1
    BY <1>1 DEF Saves
  <2>2. CASE k = n
    <3>1. j \in 1 .. n - 1 /\ j \in 1 .. n /\ n \in 1 .. n
      BY <1>1, <2>2
    <3>2. all[j] = entry[j] /\ all[k] = entry[n]
      BY <1>1, <2>2, <3>1
    <3>3. QED
      BY <1>2, <3>1, <3>2
  <2>3. CASE k > n
    <3> PICK o : o = k - n + 1
      OBVIOUS
    <3>1. o \in Saves(tasks) /\ o \in 2 .. l /\ all[k] = tasks[o]
      BY <1>1, <1>3, <1>4, <2>1, <2>3
    <3>2. ASSUME NEW i \in 1 .. o - 1, i = 1 \/ n + i - 1 \in 1 .. n + l - 1
          PROVE  \/ tasks[i].text = tasks[o].path
                 \/ \E m \in Saves(tasks) : i < m /\ m < o /\ tasks[m].text = tasks[o].path
      BY <3>1 DEF Nested
    <3>3. ASSUME NEW m \in Saves(tasks), m < o, tasks[m].text = tasks[o].path,
                 j < n + m - 1
          PROVE  \E i \in Saves(all) : j < i /\ i < k /\ all[i].text = all[k].path
      <4>1. m \in 2 .. l /\ n + m - 1 \in Saves(all) /\ all[n + m - 1] = tasks[m]
        BY <1>1, <1>4
      <4>2. n + m - 1 < k
        BY <1>1, <2>1, <3>3, <4>1
      <4>3. QED
        BY <3>1, <3>3, <4>1, <4>2
    <3>4. CASE j > n
      <4> PICK i : i = j - n + 1
        OBVIOUS
      <4>1. j \in DOMAIN all /\ i \in 1 .. o - 1 /\ n + i - 1 \in 1 .. n + l - 1
        BY <1>1, <2>1, <3>4
      <4>2. all[j] = tasks[i]
        BY <1>3, <3>4, <4>1
      <4>3. ASSUME NEW m \in Saves(tasks), i < m PROVE j < n + m - 1
        BY <1>1, <1>4, <4>1, <4>3
      <4>4. QED
        BY <3>1, <3>2, <3>3, <4>1, <4>2, <4>3
    <3>5. CASE j \in 1 .. n
      <4>1. 1 \in 1 .. o - 1
        BY <3>1
      <4>2. CASE tasks[1].text = tasks[o].path /\ j # n
        <5>1. all[n].text = all[k].path
          <6>1. n \in 1 .. n
            BY <1>1
          <6>2. QED
            BY <1>1, <1>2, <3>1, <4>2, <6>1
        <5>2. j < n /\ n < k
          BY <1>1, <2>3, <3>5, <4>2
        <5>3. QED
          BY <1>4, <5>1, <5>2
      <4>3. CASE tasks[1].text = tasks[o].path /\ j = n
        BY <1>1, <1>2, <3>1, <3>5, <4>3
      <4>4. ASSUME NEW m \in Saves(tasks), 1 < m PROVE j < n + m - 1
        BY <1>1, <1>4, <3>5, <4>4
      <4>5. QED
        BY <3>2, <3>3, <4>1, <4>2, <4>3, <4>4
    <3>6. j > n \/ j \in 1 .. n
      BY <1>1, <2>1
    <3>7. QED
      BY <3>4, <3>5, <3>6
  <2>4. QED
    BY <1>4, <2>2, <2>3
<1>6. ASSUME NEW j \in DOMAIN all, NEW m \in 1 .. j - 1,
             all[j].do = "check", \A i \in Saves(all) : ~(m < i /\ i < j)
      PROVE  all[m].do # "solve" /\ all[m].text = all[j].text /\ all[m].at < all[j].at
  <2>1. j \in 1 .. n + l - 1 /\ j # n
    <3>1. CASE j = n
      BY <1>1, <1>4, <1>6, <3>1 DEF Saves
    <3>2. QED
      BY <1>1, <3>1
  <2>2. CASE j < n
    <3>1. j \in 1 .. n - 1 /\ m \in 1 .. n - 1 /\ j \in 1 .. n /\ m \in 1 .. n
      BY <1>1, <2>1, <2>2
    <3>2. all[j] = entry[j] /\ all[m] = entry[m]
      BY <1>1, <3>1
    <3>3. QED
      BY <1>2, <1>6, <3>1, <3>2
  <2>3. CASE j > n
    <3> PICK o : o = j - n + 1
      OBVIOUS
    <3>1. o \in 2 .. l /\ all[j] = tasks[o]
      BY <1>3, <2>3
    <3>2. m >= n
      BY <1>1, <1>4, <1>6, <2>1, <2>3
    <3> PICK i : i = m - n + 1
      OBVIOUS
    <3>3. i \in 1 .. o - 1 /\ o \in DOMAIN tasks
      BY <1>1, <2>1, <3>1, <3>2
    <3>4. ASSUME NEW s \in Saves(tasks), i < s, s < o PROVE FALSE
      <4>1. n + s - 1 \in Saves(all) /\ s \in 2 .. l
        BY <1>4
      <4>2. m < n + s - 1 /\ n + s - 1 < j
        BY <1>1, <2>1, <3>2, <3>4, <4>1
      <4>3. QED
        BY <1>6, <4>1, <4>2
    <3>5. tasks[i].do # "solve" /\ tasks[i].text = tasks[o].text /\ tasks[i].at < tasks[o].at
      BY <1>6, <3>1, <3>3, <3>4 DEF InOrder
    <3>6. CASE m = n
      <4>1. n \in 1 .. n /\ i = 1
        BY <1>1, <3>6
      <4>2. all[m] = entry[n]
        BY <1>1, <3>6, <4>1
      <4>3. QED
        BY <1>2, <1>4, <3>1, <3>5, <4>1, <4>2
    <3>7. CASE m > n
      <4>1. m \in DOMAIN all
        BY <1>1, <2>1
      <4>2. all[m] = tasks[i]
        BY <1>3, <3>7, <4>1
      <4>3. QED
        BY <3>1, <3>5, <4>2
    <3>8. m \in Int /\ n \in Int
      BY <1>1
    <3>9. m = n \/ m > n
      BY <3>2, <3>8
    <3>10. QED
      BY <3>6, <3>7, <3>9
  <2>4. QED
    BY <1>1, <2>1, <2>2, <2>3
<1>7. QED
  BY <1>5, <1>6 DEF Nested, InOrder

-----------------------------------------------------------------------------
(* The invariant of imports.                                               *)

Loaded == {l.path : l \in Range(loads)}

IsTask(t) ==
  /\ t.text \in DOMAIN program.texts
  /\ t.do \in {"check", "solve", "save"}
  /\ t.do = "check" => t.at \in DOMAIN Text(t.text)
  /\ t.do = "save" => t.path \in Loaded /\ t.at \in ImportsOf(t.text)

\* A file has two imports, or files import each other.
Crowded == \E u \in Files : Cardinality(ImportsOf(u)) > 1
Cyclic == \E S \in (SUBSET Files) \ {{}} : \A u \in S : \E i \in ImportsOf(u) : Target(u, i) \in S

\* Task j is an import, and nothing before it ends one.
IsNextImport(j) ==
  /\ agenda[j].do = "check" /\ agenda[j].at \in ImportsOf(agenda[j].text)
  /\ \A m \in Saves(agenda) : ~(m < j)

\* The next import of a file is not taken for that of another module.
PathIsOwn ==
  \A j \in DOMAIN agenda :
    IsNextImport(j) /\ agenda[j].text \in Files => module_path = agenda[j].text

\* The imports in progress are of the files they name.
TargetsAreRead ==
  \A k \in Saves(agenda) :
    agenda[k].text \in Files => agenda[k].path = Target(agenda[k].text, agenda[k].at)

ImportsDiffer ==
  \A j, k \in Saves(agenda) : agenda[j].path = agenda[k].path => j = k

\* basename's buffer has the name of the module whose import ends next.
NamesAreKept ==
  \A k \in Saves(agenda) : base_name = Last(agenda[k].path) \/ HasImports(agenda[k].path)

AgendaInv ==
  /\ module_path \in DOMAIN program.texts
  /\ \A k \in DOMAIN agenda : IsTask(agenda[k])
  /\ Nested(agenda)
  /\ InOrder(agenda)
  /\ NamesAreKept
  /\ ~Crowded => PathIsOwn /\ TargetsAreRead
  /\ ~Crowded /\ ~Cyclic => ImportsDiffer

BindingsInv ==
  /\ Loaded \subseteq Files
  /\ DOMAIN module_env \subseteq Loaded
  /\ \A name \in DOMAIN checked : checked[name] \in DOMAIN program.texts
  /\ \A s \in DOMAIN module_ast : module_ast[s] \in Files /\ Text(s[1])[s[2]].tag = "import"
  /\ NamesOfModules

ImportsInv ==
  /\ LoadsInv
  /\ BindingsInv
  /\ phase \in {"idle", "check", "generate", "exited", "overflow", "undefined"}
  /\ phase = "check" => AgendaInv
  /\ OverflowIsCyclic

LEMMA SameTexts ==
  ASSUME program' = program
  PROVE  /\ \A u : Text(u)' = Text(u)
         /\ Files' = Files
         /\ \A u : ImportsOf(u)' = ImportsOf(u)
         /\ \A u : HasImports(u)' = HasImports(u)
         /\ \A u, i : Target(u, i)' = Target(u, i)
         /\ Crowded' = Crowded
         /\ Cyclic' = Cyclic
<1>1. (\A u : Text(u)' = Text(u)) /\ Files' = Files
  BY DEF Text, Files, Inputs
<1>2. \A u : ImportsOf(u)' = ImportsOf(u)
  BY <1>1 DEF ImportsOf
<1>3. \A u : HasImports(u)' = HasImports(u)
  BY <1>2 DEF HasImports
<1>4. \A u, i : Target(u, i)' = Target(u, i)
  BY <1>1 DEF Target
<1>5. Crowded' = Crowded
  BY <1>1, <1>2 DEF Crowded
<1>6. Cyclic' = Cyclic
  BY <1>1, <1>2, <1>4 DEF Cyclic
<1>7. QED
  BY <1>1, <1>2, <1>3, <1>4, <1>5, <1>6

\* The import at the head of the agenda belongs to the module whose import ends next,
\* and to that of every later one there is an import too.
LEMMA ImportsAround ==
  ASSUME agenda # <<>>, IsSequence(agenda), AgendaInv,
         Task.do = "check", Task.at \in ImportsOf(Task.text),
         NEW k \in Saves(agenda)
  PROVE  /\ HasImports(agenda[k].path)
         /\ \/ Task.text = agenda[k].path
            \/ \E m \in Saves(agenda) : agenda[m].text = agenda[k].path
<1>1. /\ k \in 1 .. Len(agenda) /\ Len(agenda) \in Nat /\ agenda[k].do = "save" /\ Task = agenda[1]
      /\ DOMAIN agenda = 1 .. Len(agenda)
  BY RestOf DEF Saves, Task
<1>2. 1 \in 1 .. k - 1
  BY <1>1
<1>3. \/ Task.text = agenda[k].path
      \/ \E m \in Saves(agenda) : agenda[m].text = agenda[k].path
  BY <1>1, <1>2 DEF AgendaInv, Nested
<1>4. \A m \in Saves(agenda) : agenda[m].at \in ImportsOf(agenda[m].text)
  BY DEF AgendaInv, IsTask, Saves
<1>5. HasImports(agenda[k].path)
  BY <1>3, <1>4 DEF HasImports
<1>6. QED
  BY <1>3, <1>5

\* A task is done that ends no import: of the type checker's, what names an import
\* belongs to the module whose import ends next.
LEMMA TaskKeepsAgenda ==
  ASSUME agenda # <<>>, IsSequence(agenda), AgendaInv, Task.do # "save", agenda' = Tail(agenda),
         UNCHANGED <<program, loads, module_path>>,
         \/ base_name' = base_name
         \/ Task.do = "check" /\ Task.at \in ImportsOf(Task.text)
  PROVE  AgendaInv'
<1> PICK rest : rest = Tail(agenda)
  OBVIOUS
<1>1. /\ agenda' = rest /\ Task = agenda[1]
      /\ Len(agenda) \in Nat \ {0} /\ DOMAIN agenda = 1 .. Len(agenda)
      /\ DOMAIN rest = 1 .. Len(agenda) - 1
      /\ \A i \in 1 .. Len(agenda) - 1 : rest[i] = agenda[i + 1]
  BY RestOf DEF Task
<1>2. Nested(rest) /\ InOrder(rest)
  BY RestKeepsOrder DEF AgendaInv
<1>3. \A i \in DOMAIN rest : i + 1 \in DOMAIN agenda /\ rest[i] = agenda[i + 1]
  BY <1>1
<1>4. \A k \in Saves(rest) : k + 1 \in Saves(agenda) /\ rest[k] = agenda[k + 1]
  BY <1>1, <1>3 DEF Saves
<1>5. \A k \in Saves(agenda) : k - 1 \in Saves(rest) /\ k \in Nat
  <2> SUFFICES ASSUME NEW k \in Saves(agenda) PROVE k - 1 \in Saves(rest) /\ k \in Nat
    OBVIOUS
  <2>1. k \in 1 .. Len(agenda) /\ agenda[k].do = "save" /\ k # 1
    BY <1>1 DEF Saves
  <2>2. k - 1 \in DOMAIN rest /\ rest[k - 1] = agenda[k]
    BY <1>1, <2>1
  <2>3. QED
    BY <2>1, <2>2 DEF Saves
<1>6. \A k \in DOMAIN rest : IsTask(rest[k])'
  <2> SUFFICES ASSUME NEW k \in DOMAIN rest PROVE IsTask(rest[k])'
    OBVIOUS
  <2>1. IsTask(rest[k])
    BY <1>3 DEF AgendaInv
  <2>2. QED
    BY <1>1, <2>1, SameTexts DEF IsTask, Loaded
<1>7. NamesAreKept'
  <2>1. \A k \in Saves(agenda) : base_name' = Last(agenda[k].path) \/ HasImports(agenda[k].path)
    BY ImportsAround DEF AgendaInv, NamesAreKept
  <2>2. QED
    BY <1>1, <1>4, <2>1, SameTexts DEF NamesAreKept
<1>8. ASSUME ~Crowded PROVE PathIsOwn' /\ TargetsAreRead'
  <2>1. PathIsOwn /\ TargetsAreRead
    BY <1>8 DEF AgendaInv
  <2>2. ASSUME NEW j \in DOMAIN rest, \A m \in Saves(rest) : ~(m < j), NEW m \in Saves(agenda)
        PROVE  ~(m < j + 1)
    BY <1>1, <1>5, <2>2
  <2>3. PathIsOwn'
    BY <1>1, <1>3, <2>1, <2>2, SameTexts DEF PathIsOwn, IsNextImport
  <2>4. \A k \in Saves(rest) :
          rest[k].text \in Files => rest[k].path = Target(rest[k].text, rest[k].at)
    BY <1>4, <2>1 DEF TargetsAreRead
  <2>5. TargetsAreRead'
    BY <1>1, <2>4 DEF TargetsAreRead, Target, Text, Files, Inputs
  <2>6. QED
    BY <2>3, <2>5
<1>9. ASSUME ImportsDiffer PROVE ImportsDiffer'
  <2> SUFFICES ASSUME NEW j \in Saves(rest), NEW k \in Saves(rest), rest[j].path = rest[k].path
               PROVE  j = k
    BY <1>1 DEF ImportsDiffer
  <2>1. j \in 1 .. Len(agenda) - 1 /\ k \in 1 .. Len(agenda) - 1
    BY <1>1 DEF Saves
  <2>2. j + 1 = k + 1
    BY <1>4, <1>9 DEF ImportsDiffer
  <2>3. QED
    BY <1>1, <2>1, <2>2
<1>10. QED
  BY <1>1, <1>2, <1>6, <1>7, <1>8, <1>9, SameTexts DEF AgendaInv

\* A file that is imported while it is being imported, or by one that is, is on a
\* cycle of imports.
LEMMA ImportsClose ==
  ASSUME agenda # <<>>, IsSequence(agenda), AgendaInv, ~Crowded, Loaded \subseteq Files,
         Task.do = "check", Task.at \in ImportsOf(Task.text),
         Task.text \in Files => Imported = Target(Task.text, Task.at),
         NEW k \in Saves(agenda), agenda[k].path = Imported
  PROVE  Cyclic
<1> DEFINE S == {agenda[m].path : m \in Saves(agenda)}
<1>1. S \subseteq Files /\ Imported \in S
  <2>1. \A m \in Saves(agenda) : agenda[m].path \in Loaded
    BY DEF AgendaInv, IsTask, Saves
  <2>2. QED
    BY <2>1
<1>2. ASSUME NEW m \in Saves(agenda)
      PROVE  \E i \in ImportsOf(agenda[m].path) : Target(agenda[m].path, i) \in S
  <2>1. agenda[m].path \in Files
    BY <1>1
  <2>2. CASE Task.text = agenda[m].path
    BY <1>1, <2>1, <2>2
  <2>3. ASSUME NEW l \in Saves(agenda), agenda[l].text = agenda[m].path
        PROVE  \E i \in ImportsOf(agenda[m].path) : Target(agenda[m].path, i) \in S
    <3>1. agenda[l].at \in ImportsOf(agenda[l].text)
      BY DEF AgendaInv, IsTask, Saves
    <3>2. agenda[l].path = Target(agenda[l].text, agenda[l].at)
      BY <2>1, <2>3 DEF AgendaInv, TargetsAreRead
    <3>3. QED
      BY <2>3, <3>1, <3>2
  <2>4. QED
    BY <2>2, <2>3, ImportsAround
<1>3. S \in (SUBSET Files) \ {{}}
  BY <1>1
<1>4. \A u \in S : \E i \in ImportsOf(u) : Target(u, i) \in S
  BY <1>2
<1> HIDE DEF S
<1>5. QED
  BY <1>3, <1>4 DEF Cyclic

\* The path of an import ends with the name it gives.
LEMMA LastOfImported ==
  ASSUME program \in Programs, module_path \in DOMAIN program.texts,
         Task.text \in DOMAIN program.texts, Task.at \in ImportsOf(Task.text)
  PROVE  Last(Imported) = Last(This.rel)
<1> DEFINE depth == Len(module_path) - 1 - This.up
           rel == This.rel
           X == Range(module_path) \cup Range(rel)
<1>1. /\ This.tag = "import" /\ This.up \in Nat
      /\ IsSequence(rel) /\ rel # <<>> /\ IsSequence(module_path)
  BY PathsAssumption DEF ImportsOf, This, Text, IsSequence
<1>2. rel \in Seq(X) /\ module_path \in Seq(X)
  BY <1>1, SeqMonotonic DEF IsSequence
<1> HIDE DEF rel, X
<1>3. SubSeq(module_path, 1, depth) \in Seq(X)
  <2>1. depth \in Int /\ depth <= Len(module_path) /\ Len(module_path) \in Nat
    BY <1>1, <1>2
  <2> HIDE DEF depth
  <2>2. QED
    BY <1>2, <2>1
<1> PICK dir : dir = SubSeq(module_path, 1, depth)
  OBVIOUS
<1>4. /\ dir \o rel \in Seq(X) /\ Len(dir \o rel) = Len(dir) + Len(rel)
      /\ \A i \in 1 .. Len(rel) : (dir \o rel)[Len(dir) + i] = rel[i]
  BY <1>2, <1>3, Joined
<1>5. Len(rel) \in 1 .. Len(rel) /\ Len(dir) \in Nat
  BY <1>1, <1>2, <1>3
<1>6. Last(dir \o rel) = Last(rel)
  BY <1>4, <1>5 DEF Last
<1>7. Imported = dir \o rel
  BY DEF Imported, resolve_path, rel
<1>8. QED
  BY <1>6, <1>7 DEF rel

\* The tasks of a text, and those of an import that reads a file.
LEMMA TasksOfText ==
  ASSUME program \in Programs, NEW u \in DOMAIN program.texts, NEW do
  PROVE  /\ IsSequence(Each(do, u))
         /\ Len(Each(do, u)) \in Nat /\ DOMAIN Each(do, u) = 1 .. Len(Each(do, u))
         /\ DOMAIN Text(u) = 1 .. Len(Each(do, u))
         /\ \A i \in DOMAIN Each(do, u) : Each(do, u)[i] = Todo(do, u, i, u)
<1>1. IsSequence(Each(do, u))
  BY EachIsSequence
<1>2. Text(u) \in Seq(Range(Text(u)))
  BY ProgramsAssumption DEF Text
<1>3. /\ DOMAIN Each(do, u) = DOMAIN Text(u)
      /\ \A i \in DOMAIN Each(do, u) : Each(do, u)[i] = Todo(do, u, i, u)
  BY DEF Each
<1>4. Len(Each(do, u)) \in Nat /\ DOMAIN Each(do, u) = 1 .. Len(Each(do, u))
  BY <1>1 DEF IsSequence
<1>5. QED
  BY <1>1, <1>3, <1>4

\* The others check the file.
ChecksFile(entry, file) ==
  \A i \in DOMAIN entry :
    \/ i = Len(entry)
    \/ /\ entry[i].text = file
       /\ entry[i].do \in {"check", "solve"}
       /\ entry[i].do = "check" => entry[i].at \in DOMAIN Text(file)

LEMMA TasksOfImport ==
  ASSUME program \in Programs, NEW file \in DOMAIN program.texts, NEW task,
         NEW entry, entry = Each("check", file) \o <<Todo("solve", file, 0, file),
                                                    Todo("save", task.text, task.at, file)>>
  PROVE  IsEntry(entry, task, file) /\ ChecksFile(entry, file)
<1> PICK each : each = Each("check", file)
  OBVIOUS
<1> PICK solve : solve = Todo("solve", file, 0, file)
  OBVIOUS
<1> PICK save : save = Todo("save", task.text, task.at, file)
  OBVIOUS
<1> PICK n : n = Len(each)
  OBVIOUS
<1> DEFINE X == Range(each) \cup {solve, save}
<1>0. entry = each \o <<solve, save>>
  OBVIOUS
<1>1. /\ IsSequence(each) /\ n \in Nat /\ DOMAIN each = 1 .. n /\ DOMAIN Text(file) = 1 .. n
      /\ \A i \in 1 .. n : each[i] = Todo("check", file, i, file)
  BY TasksOfText
<1>2. each \in Seq(X) /\ <<solve, save>> \in Seq(X)
  <2>1. each \in Seq(X)
    BY <1>1, SeqMonotonic DEF IsSequence
  <2>2. solve \in X /\ save \in X
    OBVIOUS
  <2> HIDE DEF X
  <2>3. QED
    BY <2>1, <2>2
<1> HIDE DEF X
<1>3. /\ entry \in Seq(X) /\ Len(entry) = n + 2
      /\ \A i \in 1 .. n : entry[i] = each[i]
      /\ entry[n + 1] = solve /\ entry[n + 2] = save
  <2>1. /\ entry \in Seq(X) /\ Len(entry) = Len(each) + Len(<<solve, save>>)
        /\ \A i \in 1 .. Len(each) : entry[i] = each[i]
        /\ \A i \in 1 .. Len(<<solve, save>>) : entry[Len(each) + i] = <<solve, save>>[i]
    BY <1>0, <1>2, Joined
  <2>2. Len(<<solve, save>>) = 2 /\ <<solve, save>>[1] = solve /\ <<solve, save>>[2] = save
    OBVIOUS
  <2>3. QED
    BY <2>1, <2>2
<1>4. DOMAIN entry = 1 .. n + 2 /\ IsSequence(entry) /\ entry # <<>>
  <2>1. DOMAIN entry = 1 .. Len(entry)
    BY <1>3
  <2>2. entry # <<>>
    BY <1>1, <1>3
  <2>3. QED
    BY <1>3, <2>1, <2>2, SequenceOf
<1>5. /\ \A i \in 1 .. n : /\ entry[i].do = "check" /\ entry[i].text = file /\ entry[i].at = i
      /\ entry[n + 1].do = "solve" /\ entry[n + 1].text = file
      /\ entry[n + 2].do = "save" /\ entry[n + 2].text = task.text
      /\ entry[n + 2].at = task.at /\ entry[n + 2].path = file
  <2>1. \A i \in 1 .. n : entry[i] = Todo("check", file, i, file)
    BY <1>1, <1>3
  <2>2. ASSUME NEW i \in 1 .. n
        PROVE  entry[i].do = "check" /\ entry[i].text = file /\ entry[i].at = i
    <3>1. entry[i] = Todo("check", file, i, file)
      BY <2>1
    <3>2. QED
      BY <3>1 DEF Todo
  <2>3. solve.do = "solve" /\ solve.text = file
    BY DEF Todo
  <2>4. save.do = "save" /\ save.text = task.text /\ save.at = task.at /\ save.path = file
    BY DEF Todo
  <2>5. QED
    BY <1>3, <2>2, <2>3, <2>4
<1>6. \A i \in DOMAIN entry : i \in 1 .. n \/ i = n + 1 \/ i = n + 2
  BY <1>1, <1>4
<1>7. Saves(entry) = {n + 2}
  <2>1. n + 2 \in DOMAIN entry
    BY <1>1, <1>4
  <2>2. QED
    BY <1>5, <1>6, <2>1 DEF Saves
<1>8. IsEntry(entry, task, file)
  <2>1. \A i \in 1 .. (n + 2) - 1 : i \in 1 .. n \/ i = n + 1
    BY <1>1
  <2>2. \A i \in 1 .. (n + 2) - 1 : entry[i].text = file
    BY <1>5, <2>1
  <2>3. ASSUME NEW j \in 1 .. (n + 2) - 1, NEW i \in 1 .. j - 1, entry[j].do = "check"
        PROVE  entry[i].do # "solve" /\ entry[i].at < entry[j].at
    <3>1. j \in 1 .. n
      BY <1>5, <2>1, <2>3
    <3>2. i \in 1 .. n /\ i < j
      BY <1>1, <3>1
    <3>3. QED
      BY <1>5, <3>1, <3>2
  <2>4. Len(entry) = n + 2
    BY <1>3
  <2>5. /\ Saves(entry) = {Len(entry)}
        /\ entry[Len(entry)].text = task.text
        /\ entry[Len(entry)].at = task.at
        /\ entry[Len(entry)].path = file
    BY <1>5, <1>7, <2>4
  <2>6. \A i \in 1 .. Len(entry) - 1 : entry[i].text = file
    BY <2>2, <2>4
  <2>7. \A j \in 1 .. Len(entry) - 1 : \A i \in 1 .. j - 1 :
          entry[j].do = "check" => entry[i].do # "solve" /\ entry[i].at < entry[j].at
    BY <2>3, <2>4
  <2>8. QED
    BY <1>4, <2>5, <2>6, <2>7 DEF IsEntry
<1>9. ChecksFile(entry, file)
  BY <1>1, <1>3, <1>5, <1>6 DEF ChecksFile
<1>10. QED
  BY <1>8, <1>9

\* An import that reads a file.
LEMMA LoadKeepsAgenda ==
  ASSUME LoadsInv, BindingsInv, AgendaInv, LoadModule
  PROVE  AgendaInv'
<1> PICK file : file = Imported
  OBVIOUS
<1>entry. PICK entry : entry = Each("check", file) \o <<Todo("solve", file, 0, file),
                                                        Todo("save", Task.text, Task.at, file)>>
  OBVIOUS
<1>next. PICK next : next = entry \o Tail(agenda)
  OBVIOUS
<1> DEFINE n == Len(entry)
           last == Len(agenda)
<1>1. /\ phase = "check" /\ agenda # <<>> /\ IsSequence(agenda)
      /\ Task = agenda[1] /\ Task.do = "check" /\ This.tag = "import"
      /\ file \in Files /\ file \in DOMAIN program.texts
      /\ base_name' = Last(This.rel) /\ module_path' = file
      /\ loads' = Append(loads, [by |-> Here, path |-> file])
      /\ agenda' = next
      /\ program' = program
  BY <1>entry, <1>next, RestOf DEF LoadModule, At, Doing, OnlyChecks, session, Then, Task,
                                   Files, checked_basename, LoadsInv
<1>2. /\ IsEntry(entry, Task, file)
      /\ \A i \in DOMAIN entry :
           \/ i = n
           \/ /\ entry[i].text = file
              /\ entry[i].do \in {"check", "solve"}
              /\ entry[i].do = "check" => entry[i].at \in DOMAIN Text(file)
  <2>1. program \in Programs
    BY DEF LoadsInv
  <2>2. file \in DOMAIN program.texts
    BY <1>1
  <2> HIDE DEF n
  <2>3. IsEntry(entry, Task, file) /\ ChecksFile(entry, file)
    BY <1>entry, <2>1, <2>2, TasksOfImport
  <2>4. QED
    BY <2>3 DEF n, ChecksFile
<1>3. Task.text \in DOMAIN program.texts /\ Task.at \in ImportsOf(Task.text)
  <2>1. 1 \in DOMAIN agenda
    BY <1>1, RestOf
  <2>2. QED
    BY <1>1, <2>1 DEF AgendaInv, IsTask, ImportsOf, This
<1>4. Nested(next) /\ InOrder(next)
  BY <1>1, <1>2, <1>next, EntryKeepsOrder DEF AgendaInv
<1>5. /\ n \in Nat \ {0} /\ last \in Nat \ {0}
      /\ DOMAIN entry = 1 .. n /\ DOMAIN agenda = 1 .. last /\ DOMAIN next = 1 .. n + last - 1
      /\ \A i \in 1 .. n : next[i] = entry[i]
      /\ \A i \in 2 .. last : next[n + i - 1] = agenda[i]
  BY <1>1, <1>2, <1>next, Entered DEF IsEntry
<1>6. /\ entry[n].text = Task.text /\ entry[n].at = Task.at /\ entry[n].path = file
      /\ Saves(entry) = {n} /\ entry[n].do = "save"
  <2>1. n \in Saves(entry)
    BY <1>2 DEF IsEntry
  <2>2. QED
    BY <1>2, <2>1 DEF IsEntry, Saves
<1> HIDE DEF n, last
<1>7. ASSUME NEW k \in DOMAIN next
      PROVE  \/ k \in 1 .. n /\ next[k] = entry[k]
             \/ k > n /\ k - n + 1 \in 2 .. last /\ next[k] = agenda[k - n + 1]
  <2>1. CASE k \in 1 .. n
    BY <1>5, <2>1
  <2>2. CASE k > n
    <3>1. k - n + 1 \in 2 .. last /\ n + (k - n + 1) - 1 = k
      <4>1. k \in 1 .. n + last - 1
        BY <1>5
      <4>2. QED
        BY <1>5, <2>2, <4>1
    <3>2. QED
      BY <1>5, <2>2, <3>1
  <2>3. k \in 1 .. n \/ k > n
    BY <1>5
  <2>4. QED
    BY <2>1, <2>2, <2>3
<1>8. ASSUME NEW k \in Saves(next)
      PROVE  \/ k = n /\ next[k] = entry[n]
             \/ k > n /\ k - n + 1 \in Saves(agenda) /\ next[k] = agenda[k - n + 1]
  <2>1. k \in DOMAIN next /\ next[k].do = "save"
    BY DEF Saves
  <2>2. CASE k \in 1 .. n /\ next[k] = entry[k]
    <3>1. k \in Saves(entry)
      BY <1>5, <2>1, <2>2 DEF Saves
    <3>2. QED
      BY <1>6, <2>2, <3>1
  <2>3. CASE k > n /\ k - n + 1 \in 2 .. last /\ next[k] = agenda[k - n + 1]
    <3>1. k - n + 1 \in DOMAIN agenda
      BY <1>5, <2>3
    <3>2. QED
      BY <2>1, <2>3, <3>1 DEF Saves
  <2>4. QED
    BY <1>7, <2>1, <2>2, <2>3
<1>9. Loaded' = Loaded \cup {file}
  <2> PICK load : load = [by |-> Here, path |-> file]
    OBVIOUS
  <2>1. Range(loads') = Range(loads) \cup {load} /\ load.path = file
    BY <1>1, AppendIsSequence DEF LoadsInv
  <2>2. QED
    BY <2>1 DEF Loaded
<1>10. ASSUME NEW k \in DOMAIN next PROVE IsTask(next[k])'
  <2>1. CASE k \in 1 .. n /\ k # n /\ next[k] = entry[k]
    <3>1. /\ entry[k].text = file /\ entry[k].do \in {"check", "solve"}
          /\ entry[k].do = "check" => entry[k].at \in DOMAIN Text(file)
      BY <1>2, <1>5, <2>1
    <3>2. program' = program /\ file \in DOMAIN program.texts
      BY <1>1
    <3>3. QED
      BY <2>1, <3>1, <3>2, SameTexts DEF IsTask
  <2>2. CASE k = n /\ next[k] = entry[k]
    <3>1. program' = program
      BY <1>1
    <3>2. QED
      BY <1>3, <1>6, <1>9, <2>2, <3>1, SameTexts DEF IsTask
  <2>3. ASSUME NEW i \in 2 .. last, next[k] = agenda[i] PROVE IsTask(next[k])'
    <3>1. i \in DOMAIN agenda
      BY <1>5
    <3>2. IsTask(agenda[i])
      BY <3>1 DEF AgendaInv
    <3>3. QED
      BY <1>1, <1>9, <2>3, <3>2, SameTexts DEF IsTask
  <2>4. QED
    BY <1>7, <2>1, <2>2, <2>3
<1>11. NamesAreKept'
  <2> SUFFICES ASSUME NEW k \in Saves(next)
               PROVE  base_name' = Last(next[k].path) \/ HasImports(next[k].path)'
    BY <1>1 DEF NamesAreKept
  <2>1. CASE k = n /\ next[k] = entry[n]
    <3>1. Last(file) = Last(This.rel)
      BY <1>3, LastOfImported DEF AgendaInv, LoadsInv
    <3>2. QED
      BY <1>1, <1>6, <2>1, <3>1
  <2>2. CASE k - n + 1 \in Saves(agenda) /\ next[k] = agenda[k - n + 1]
    BY <1>1, <1>3, <2>2, ImportsAround, SameTexts
  <2>3. QED
    BY <1>8, <2>1, <2>2
<1>12. ASSUME ~Crowded PROVE Task.text \in Files => file = Target(Task.text, Task.at)
  <2> SUFFICES ASSUME Task.text \in Files PROVE file = Target(Task.text, Task.at)
    OBVIOUS
  <2>1. IsNextImport(1) /\ 1 \in DOMAIN agenda
    BY <1>1, <1>3, <1>5 DEF IsNextImport, Saves
  <2>2. module_path = Task.text
    BY <1>1, <1>12, <2>1 DEF AgendaInv, PathIsOwn
  <2>3. QED
    BY <2>2 DEF Target, Imported, resolve_path, This
<1>13. ASSUME ~Crowded PROVE PathIsOwn' /\ TargetsAreRead'
  <2>1. PathIsOwn'
    <3> SUFFICES ASSUME NEW j \in DOMAIN next, IsNextImport(j)'
                 PROVE  file = next[j].text
      BY <1>1 DEF PathIsOwn
    <3>1. next[j].do = "check" /\ \A m \in Saves(next) : ~(m < j)
      BY <1>1 DEF IsNextImport
    <3>2. n \in Saves(next)
      <4>1. n \in DOMAIN next /\ next[n] = entry[n]
        <5>1. n \in Nat \ {0} /\ last \in Nat \ {0}
          BY <1>5
        <5>2. n \in 1 .. n /\ n \in 1 .. n + last - 1
          BY <5>1
        <5>3. QED
          BY <1>5, <5>2
      <4>2. QED
        BY <1>6, <4>1 DEF Saves
    <3>3. j \in 1 .. n /\ next[j] = entry[j]
      BY <1>5, <1>7, <3>1, <3>2
    <3>4. j # n
      BY <1>6, <3>1, <3>3
    <3>5. QED
      BY <1>2, <1>5, <3>3, <3>4
  <2>2. \A k \in Saves(next) :
          next[k].text \in Files => next[k].path = Target(next[k].text, next[k].at)
    <3>1. TargetsAreRead
      BY <1>13 DEF AgendaInv
    <3> SUFFICES ASSUME NEW k \in Saves(next), next[k].text \in Files
                 PROVE  next[k].path = Target(next[k].text, next[k].at)
      OBVIOUS
    <3>2. CASE next[k] = entry[n]
      BY <1>6, <1>12, <1>13, <3>2
    <3>3. CASE k - n + 1 \in Saves(agenda) /\ next[k] = agenda[k - n + 1]
      BY <3>1, <3>3 DEF TargetsAreRead
    <3>4. QED
      BY <1>8, <3>2, <3>3
  <2>3. TargetsAreRead'
    <3>1. agenda' = next /\ program' = program
      BY <1>1
    <3>2. QED
      BY <2>2, <3>1 DEF TargetsAreRead, Target, Text, Files, Inputs
  <2>4. QED
    BY <2>1, <2>3
<1>14. ASSUME ~Crowded, ~Cyclic PROVE ImportsDiffer'
  <2>1. ImportsDiffer
    BY <1>14 DEF AgendaInv
  <2>2. \A k \in Saves(agenda) : agenda[k].path # file
    BY <1>1, <1>3, <1>12, <1>14, ImportsClose DEF BindingsInv
  <2> SUFFICES ASSUME NEW j \in Saves(next), NEW k \in Saves(next),
                      next[j].path = next[k].path
               PROVE  j = k
    <3>1. agenda' = next
      BY <1>1
    <3>2. QED
      BY <3>1 DEF ImportsDiffer
  <2>3. j \in 1 .. n + last - 1 /\ k \in 1 .. n + last - 1
    BY <1>5 DEF Saves
  <2>4. CASE j = n \/ k = n
    <3>1. ASSUME NEW i \in Saves(next) PROVE i = n <=> next[i].path = file
      <4>1. CASE i = n /\ next[i] = entry[n]
        BY <1>6, <4>1
      <4>2. CASE i > n /\ i - n + 1 \in Saves(agenda) /\ next[i] = agenda[i - n + 1]
        BY <1>5, <2>2, <4>2
      <4>3. QED
        BY <1>8, <4>1, <4>2
    <3>2. QED
      BY <2>4, <3>1
  <2>5. CASE j # n /\ k # n
    <3>1. j - n + 1 = k - n + 1
      BY <1>8, <2>1, <2>5 DEF ImportsDiffer
    <3>2. QED
      BY <1>5, <2>3, <3>1
  <2>6. QED
    BY <2>4, <2>5
<1>15. QED
  BY <1>1, <1>4, <1>10, <1>11, <1>13, <1>14, SameTexts DEF AgendaInv

LEMMA TwoImports ==
  ASSUME program \in Programs, NEW u \in Files,
         NEW a \in ImportsOf(u), NEW b \in ImportsOf(u), a < b
  PROVE  Crowded
<1>1. Text(u) \in Seq(Range(Text(u)))
  BY ProgramsAssumption DEF Files, Text
<1>2. ImportsOf(u) \in SUBSET (1 .. Len(Text(u))) /\ Len(Text(u)) \in Nat
  BY <1>1 DEF ImportsOf
<1>3. IsFiniteSet(ImportsOf(u))
  <2>1. IsFiniteSet(1 .. Len(Text(u)))
    BY <1>2, FS_Interval
  <2>2. QED
    BY <1>2, <2>1, FS_Subset
<1>4. a # b
  BY <1>2
<1>5. Cardinality({a} \cup {b}) = 2
  <2>1. IsFiniteSet({a}) /\ Cardinality({a}) = 1
    BY FS_Singleton
  <2>2. QED
    BY <1>4, <2>1, FS_AddElement
<1>6. Cardinality({a} \cup {b}) <= Cardinality(ImportsOf(u))
  <2>1. {a} \cup {b} \in SUBSET ImportsOf(u)
    OBVIOUS
  <2>2. QED
    BY <1>3, <2>1, FS_Subset
<1>7. Cardinality(ImportsOf(u)) \in Nat
  BY <1>3, FS_CardinalityType
<1>8. Cardinality(ImportsOf(u)) > 1
  BY <1>5, <1>6, <1>7
<1>9. QED
  BY <1>8 DEF Crowded

\* The end of an import: what is left of the importer has none, if it is a file with one.
LEMMA SaveKeepsAgenda ==
  ASSUME LoadsInv, AgendaInv, SaveModule
  PROVE  AgendaInv'
<1>next. PICK rest : rest = Tail(agenda)
  OBVIOUS
<1>1. /\ phase = "check" /\ agenda # <<>> /\ IsSequence(agenda) /\ Task.do = "save"
      /\ agenda' = rest
      /\ UNCHANGED <<program, loads, module_path, base_name>>
  <2>1. phase = "check" /\ agenda # <<>> /\ Task.do = "save" /\ agenda' = <<>> \o Tail(agenda)
    BY DEF SaveModule, Doing, Then
  <2>2. IsSequence(agenda)
    BY <2>1 DEF LoadsInv
  <2>3. <<>> \o Tail(agenda) = Tail(agenda)
    BY <2>1, <2>2, RestOf DEF IsSequence
  <2>4. UNCHANGED <<program, loads, module_path, base_name>>
    BY DEF SaveModule, OnlyChecks, session
  <2>5. QED
    BY <1>next, <2>1, <2>2, <2>3, <2>4
<1>2. /\ Task = agenda[1]
      /\ Len(agenda) \in Nat \ {0} /\ DOMAIN agenda = 1 .. Len(agenda)
      /\ DOMAIN rest = 1 .. Len(agenda) - 1
      /\ \A i \in 1 .. Len(agenda) - 1 : rest[i] = agenda[i + 1]
  BY <1>1, <1>next, RestOf DEF Task
<1>3. Nested(rest) /\ InOrder(rest)
  BY <1>1, <1>next, RestKeepsOrder DEF AgendaInv
<1>4. \A i \in DOMAIN rest : i + 1 \in DOMAIN agenda /\ rest[i] = agenda[i + 1]
  BY <1>2
<1>5. \A k \in Saves(rest) : k + 1 \in Saves(agenda) /\ rest[k] = agenda[k + 1]
  BY <1>2, <1>4 DEF Saves
<1>6. \A k \in DOMAIN rest : IsTask(rest[k])'
  <2> SUFFICES ASSUME NEW k \in DOMAIN rest PROVE IsTask(rest[k])'
    OBVIOUS
  <2>1. IsTask(rest[k])
    BY <1>4 DEF AgendaInv
  <2>2. QED
    BY <1>1, <2>1, SameTexts DEF IsTask, Loaded
<1>7. NamesAreKept'
  <2>1. NamesAreKept
    BY DEF AgendaInv
  <2>2. QED
    BY <1>1, <1>5, <2>1, SameTexts DEF NamesAreKept
<1>8. ASSUME ~Crowded PROVE PathIsOwn' /\ TargetsAreRead'
  <2>1. TargetsAreRead
    BY <1>8 DEF AgendaInv
  <2>2. ASSUME NEW j \in DOMAIN rest, rest[j].do = "check", rest[j].text \in Files,
               rest[j].at \in ImportsOf(rest[j].text), \A m \in Saves(rest) : ~(m < j)
        PROVE  FALSE
    <3>1. /\ j \in 1 .. Len(agenda) - 1 /\ rest[j] = agenda[j + 1]
          /\ j + 1 \in DOMAIN agenda /\ 1 \in 1 .. (j + 1) - 1 /\ 1 \in DOMAIN agenda
      BY <1>2
    <3>2. ASSUME NEW l \in Saves(agenda), 1 < l, l < j + 1 PROVE FALSE
      <4>1. l \in 1 .. Len(agenda) /\ agenda[l].do = "save"
        BY <1>2 DEF Saves
      <4>2. l - 1 \in DOMAIN rest /\ rest[l - 1] = agenda[l] /\ l - 1 < j
        BY <1>2, <3>1, <3>2, <4>1
      <4>3. QED
        BY <2>2, <4>1, <4>2 DEF Saves
    <3>3. agenda[1].text = agenda[j + 1].text /\ agenda[1].at < agenda[j + 1].at
      BY <2>2, <3>1, <3>2 DEF AgendaInv, InOrder
    <3>4. agenda[1].at \in ImportsOf(agenda[1].text)
      BY <1>1, <1>2, <3>1 DEF AgendaInv, IsTask
    <3>5. QED
      BY <1>8, <2>2, <3>1, <3>3, <3>4, TwoImports DEF LoadsInv
  <2>3. PathIsOwn'
    BY <1>1, <2>2, SameTexts DEF PathIsOwn, IsNextImport
  <2>4. \A k \in Saves(rest) :
          rest[k].text \in Files => rest[k].path = Target(rest[k].text, rest[k].at)
    BY <1>5, <2>1 DEF TargetsAreRead
  <2>5. TargetsAreRead'
    BY <1>1, <2>4 DEF TargetsAreRead, Target, Text, Files, Inputs
  <2>6. QED
    BY <2>3, <2>5
<1>9. ASSUME ImportsDiffer PROVE ImportsDiffer'
  <2> SUFFICES ASSUME NEW j \in Saves(rest), NEW k \in Saves(rest), rest[j].path = rest[k].path
               PROVE  j = k
    BY <1>1 DEF ImportsDiffer
  <2>1. j \in 1 .. Len(agenda) - 1 /\ k \in 1 .. Len(agenda) - 1
    BY <1>2 DEF Saves
  <2>2. j + 1 = k + 1
    BY <1>5, <1>9 DEF ImportsDiffer
  <2>3. QED
    BY <1>2, <2>1, <2>2
<1>10. QED
  BY <1>1, <1>3, <1>6, <1>7, <1>8, <1>9, SameTexts DEF AgendaInv

-----------------------------------------------------------------------------
(* What the steps do to the names and to the cache.                        *)

\* A step that binds no name.
LEMMA BindingsStay ==
  ASSUME BindingsInv, UNCHANGED <<program, checked, module_ast, loads>>,
         DOMAIN module_env' \subseteq Loaded
  PROVE  BindingsInv'
<1>1. Loaded' = Loaded
  BY DEF Loaded
<1>2. NamesOfModules'
  BY SameTexts DEF BindingsInv, NamesOfModules
<1>3. QED
  BY <1>1, <1>2, SameTexts DEF BindingsInv

\* An import binds the name that basename's buffer has to the module.
LEMMA ImportBinds ==
  ASSUME BindingsInv, UNCHANGED <<program, loads>>, DOMAIN module_env' \subseteq Loaded,
         NEW path \in Files, BindImport(path),
         Task.at \in ImportsOf(Task.text), base_name' = Last(path) \/ HasImports(path)
  PROVE  BindingsInv'
<1>1. Loaded' = Loaded
  BY DEF Loaded
<1>2. /\ DOMAIN checked' = DOMAIN checked \cup {base_name'}
      /\ checked'[base_name'] = path
      /\ \A name \in DOMAIN checked : name # base_name' => checked'[name] = checked[name]
  BY DEF BindImport, Extended
<1>3. \A name \in DOMAIN checked' : checked'[name] \in DOMAIN program.texts
  BY <1>2 DEF BindingsInv, Files
<1>4. \A s \in DOMAIN module_ast' : module_ast'[s] \in Files /\ Text(s[1])[s[2]].tag = "import"
  <2>1. Text(Here[1])[Here[2]].tag = "import"
    BY DEF Here, ImportsOf
  <2>2. /\ DOMAIN module_ast' = DOMAIN module_ast \cup {Here}
        /\ module_ast'[Here] = path
        /\ \A s \in DOMAIN module_ast : s # Here => module_ast'[s] = module_ast[s]
    BY DEF BindImport, Extended
  <2>3. QED
    BY <2>1, <2>2 DEF BindingsInv
<1>5. NamesOfModules'
  <2> SUFFICES ASSUME NEW name \in DOMAIN checked', NEW file \in Files, Last(file) = name
               PROVE  Last(checked'[name]) = name \/ HasImports(checked'[name])
    BY SameTexts DEF NamesOfModules
  <2>1. CASE name = base_name'
    BY <1>2, <2>1
  <2>2. CASE name # base_name'
    BY <1>2, <2>2 DEF BindingsInv, NamesOfModules
  <2>3. QED
    BY <2>1, <2>2
<1>6. QED
  BY <1>1, <1>3, <1>4, <1>5, SameTexts DEF BindingsInv

\* The check of a file stops for want of stack only if imports run in a circle, or
\* for a file with two: else those in progress and the file they would read differ.
LEMMA OverflowHasCause ==
  ASSUME LoadsInv, BindingsInv, AgendaInv,
         agenda # <<>>, IsSequence(agenda), Task.do = "check", Task.at \in ImportsOf(Task.text),
         Imported \in Files, Cardinality(InProgress) = MaxDepth
  PROVE  Crowded \/ Cyclic
<1> SUFFICES ASSUME ~Crowded, ~Cyclic PROVE FALSE
  OBVIOUS
<1> PICK file : file = Imported
  OBVIOUS
<1> DEFINE f == [k \in Saves(agenda) |-> agenda[k].path]
<1>1. InProgress = Saves(agenda)
  BY DEF InProgress, Saves
<1>2. IsFiniteSet(Files) /\ Cardinality(Files) <= MaxDepth
  <2>1. Files \in SUBSET DOMAIN program.texts
    BY DEF Files
  <2>2. IsFiniteSet(DOMAIN program.texts) /\ Cardinality(Files) <= MaxDepth
    BY RoomAssumption DEF LoadsInv, Files, Inputs
  <2>3. QED
    BY <2>1, <2>2, FS_Subset
<1>3. /\ IsFiniteSet(Files \ {file}) /\ Cardinality(Files \ {file}) < MaxDepth
  <2>1. Cardinality(Files \ {file}) = Cardinality(Files) - 1 /\ IsFiniteSet(Files \ {file})
    BY <1>2, FS_RemoveElement
  <2>2. Cardinality(Files) \in Nat
    BY <1>2, FS_CardinalityType
  <2>3. QED
    BY <1>2, <2>1, <2>2, DepthAssumption
<1>4. IsFiniteSet(Saves(agenda))
  <2>1. Saves(agenda) \in SUBSET (1 .. Len(agenda)) /\ Len(agenda) \in Nat
    BY RestOf DEF Saves
  <2>2. IsFiniteSet(1 .. Len(agenda))
    BY <2>1, FS_Interval
  <2>3. QED
    BY <2>1, <2>2, FS_Subset
<1>5. Task.text \in Files => Imported = Target(Task.text, Task.at)
  <2>1. 1 \in DOMAIN agenda /\ Task = agenda[1] /\ DOMAIN agenda = 1 .. Len(agenda)
    BY RestOf DEF Task
  <2>2. IsNextImport(1)
    <3>1. \A m \in Saves(agenda) : ~(m < 1)
      BY <2>1 DEF Saves
    <3>2. QED
      BY <2>1, <3>1 DEF IsNextImport
  <2>3. Task.text \in Files => module_path = Task.text
    BY <2>1, <2>2 DEF AgendaInv, PathIsOwn
  <2>4. QED
    BY <2>3 DEF Target, Imported, resolve_path, This
<1>6. f \in [Saves(agenda) -> Files \ {file}]
  <2>1. \A k \in Saves(agenda) : agenda[k].path \in Files
    BY DEF AgendaInv, IsTask, Saves, BindingsInv
  <2>2. \A k \in Saves(agenda) : agenda[k].path # file
    BY <1>5, ImportsClose DEF BindingsInv
  <2>3. QED
    BY <2>1, <2>2
<1>7. PICK j, k \in Saves(agenda) : j # k /\ f[j] = f[k]
  <2> HIDE DEF f
  <2>1. QED
    BY <1>1, <1>3, <1>4, <1>6, FS_PigeonHole
<1>8. agenda[j].path = agenda[k].path
  BY <1>7
<1>9. QED
  BY <1>7, <1>8 DEF AgendaInv, ImportsDiffer

-----------------------------------------------------------------------------
(* The steps.                                                              *)

\* The task at hand is one of the type checker's.
LEMMA TaskAtHand ==
  ASSUME LoadsInv, AgendaInv, phase = "check", agenda # <<>>
  PROVE  /\ IsSequence(agenda) /\ IsTask(Task)
         /\ Task.do = "check" /\ This.tag = "import" => Task.at \in ImportsOf(Task.text)
         /\ <<>> \o Tail(agenda) = Tail(agenda)
<1>1. IsSequence(agenda) /\ Task = agenda[1] /\ 1 \in DOMAIN agenda
  BY RestOf DEF LoadsInv, Task
<1>2. IsTask(Task)
  BY <1>1 DEF AgendaInv
<1>3. <<>> \o Tail(agenda) = Tail(agenda)
  BY <1>1, RestOf DEF IsSequence
<1>4. QED
  BY <1>1, <1>2, <1>3 DEF IsTask, ImportsOf, This

LEMMA CheckBindingKeeps ==
  ASSUME LoadsInv, BindingsInv, AgendaInv, CheckBinding
  PROVE  BindingsInv'
<1>1. /\ phase = "check" /\ agenda # <<>> /\ Task.do = "check" /\ This.tag \in {"let", "type"}
      /\ checked' = IF This.name \in DOMAIN checked THEN checked
                    ELSE Extended(checked, This.name, Task.text)
      /\ UNCHANGED <<program, module_ast, loads, module_env>>
  BY DEF CheckBinding, At, Doing, OnlyChecks, NoImport, session
<1>2. Task.text \in DOMAIN program.texts /\ Task.at \in DOMAIN Text(Task.text)
  BY <1>1, TaskAtHand DEF IsTask
<1>3. \A file \in Files : This.name # Last(file)
  BY <1>1, <1>2, NamesAssumption DEF This, Text, Files, Inputs, LoadsInv
<1>4. \A name \in DOMAIN checked' :
        \/ name \in DOMAIN checked /\ checked'[name] = checked[name]
        \/ name = This.name /\ checked'[name] = Task.text
  BY <1>1 DEF Extended
<1>5. Loaded' = Loaded
  BY <1>1 DEF Loaded
<1>6. NamesOfModules'
  <2> SUFFICES ASSUME NEW name \in DOMAIN checked', NEW file \in Files, Last(file) = name
               PROVE  Last(checked'[name]) = name \/ HasImports(checked'[name])
    BY <1>1, SameTexts DEF NamesOfModules
  <2>1. name \in DOMAIN checked /\ checked'[name] = checked[name]
    BY <1>3, <1>4
  <2>2. QED
    BY <2>1 DEF BindingsInv, NamesOfModules
<1>7. QED
  BY <1>1, <1>2, <1>4, <1>5, <1>6, SameTexts DEF BindingsInv

LEMMA ImportCachedKeeps ==
  ASSUME LoadsInv, BindingsInv, AgendaInv, ImportCached
  PROVE  BindingsInv' /\ AgendaInv'
<1> PICK file : file = Imported
  OBVIOUS
<1>1. /\ phase = "check" /\ agenda # <<>> /\ Task.do = "check" /\ This.tag = "import"
      /\ file \in DOMAIN module_env /\ BindImport(file) /\ base_name' = Last(This.rel)
      /\ agenda' = <<>> \o Tail(agenda)
      /\ UNCHANGED <<program, module_path, module_env, loads>>
  BY DEF ImportCached, At, Doing, checked_basename, Then, OnlyChecks, session
<1>2. /\ IsSequence(agenda) /\ Task.text \in DOMAIN program.texts
      /\ Task.at \in ImportsOf(Task.text) /\ agenda' = Tail(agenda)
  BY <1>1, TaskAtHand DEF IsTask
<1>3. Last(file) = Last(This.rel)
  BY <1>2, LastOfImported DEF LoadsInv, AgendaInv
<1>4. BindingsInv'
  <2>1. file \in Files /\ DOMAIN module_env' \subseteq Loaded
    BY <1>1 DEF BindingsInv
  <2>2. QED
    BY <1>1, <1>2, <1>3, <2>1, ImportBinds
<1>5. AgendaInv'
  BY <1>1, <1>2, TaskKeepsAgenda
<1>6. QED
  BY <1>4, <1>5

LEMMA LoadModuleKeeps ==
  ASSUME LoadsInv, BindingsInv, AgendaInv, LoadModule
  PROVE  BindingsInv' /\ AgendaInv'
<1> PICK load : load = [by |-> Here, path |-> Imported]
  OBVIOUS
<1>1. /\ Imported \in Files /\ loads' = Append(loads, load)
      /\ UNCHANGED <<program, checked, module_env, module_ast>>
  BY DEF LoadModule, OnlyChecks, session
<1>2. Loaded' = Loaded \cup {Imported}
  <2>1. Range(loads') = Range(loads) \cup {load} /\ load.path = Imported
    BY <1>1, AppendIsSequence DEF LoadsInv
  <2>2. QED
    BY <2>1 DEF Loaded
<1>3. NamesOfModules'
  BY <1>1, SameTexts DEF BindingsInv, NamesOfModules
<1>4. BindingsInv'
  BY <1>1, <1>2, <1>3, SameTexts DEF BindingsInv
<1>5. QED
  BY <1>4, LoadKeepsAgenda

LEMMA SaveModuleKeeps ==
  ASSUME LoadsInv, BindingsInv, AgendaInv, SaveModule
  PROVE  BindingsInv' /\ AgendaInv'
<1> PICK file : file = Task.path
  OBVIOUS
<1>1. /\ phase = "check" /\ agenda # <<>> /\ Task.do = "save"
      /\ module_env' = Extended(module_env, file, Cached)
      /\ BindImport(file)
      /\ UNCHANGED <<program, base_name, loads>>
  BY DEF SaveModule, save_module, Doing, OnlyChecks, session
<1>2. /\ IsSequence(agenda) /\ file \in Loaded /\ Task.at \in ImportsOf(Task.text)
  BY <1>1, TaskAtHand DEF IsTask
<1>3. base_name' = Last(file) \/ HasImports(file)
  <2>1. 1 \in Saves(agenda) /\ Task = agenda[1]
    BY <1>1, <1>2, RestOf DEF Saves, Task
  <2>2. QED
    BY <1>1, <2>1 DEF AgendaInv, NamesAreKept
<1>4. DOMAIN module_env' \subseteq Loaded
  BY <1>1, <1>2 DEF Extended, BindingsInv
<1>5. file \in Files
  BY <1>2 DEF BindingsInv
<1>6. BindingsInv'
  BY <1>1, <1>2, <1>3, <1>4, <1>5, ImportBinds
<1>7. QED
  BY <1>6, SaveKeepsAgenda

LEMMA TypeCheckKeeps ==
  ASSUME ImportsInv, TypeCheck
  PROVE  ImportsInv'
<1>1. LoadsInv /\ LoadsInv' /\ BindingsInv /\ phase = "check" /\ AgendaInv
  <2>1. phase = "check"
    BY DEF TypeCheck, CheckBinding, CheckMember, CheckIllTyped, ImportCached, LoadModule,
           ImportFails, Solve, SaveModule, At, Doing
  <2>2. QED
    BY <2>1, TypeCheckInv DEF ImportsInv
<1>2. ASSUME phase' = "check", BindingsInv', AgendaInv' PROVE ImportsInv'
  BY <1>1, <1>2 DEF ImportsInv, OverflowIsCyclic
<1>3. ASSUME UNCHANGED <<session, phase>>, NoImport, agenda # <<>>, Task.do # "save",
             Then(<<>>)
      PROVE  AgendaInv' /\ DOMAIN module_env' \subseteq Loaded
  <2>1. IsSequence(agenda) /\ agenda' = Tail(agenda)
    BY <1>1, <1>3, TaskAtHand DEF Then
  <2>2. UNCHANGED <<program, loads, module_path, base_name, module_env>>
    BY <1>3 DEF session, NoImport
  <2>3. AgendaInv'
    BY <1>1, <1>3, <2>1, <2>2, TaskKeepsAgenda
  <2>4. QED
    BY <1>1, <2>2, <2>3 DEF BindingsInv
<1>4. CASE CheckBinding
  <2>1. AgendaInv' /\ phase' = "check"
    BY <1>1, <1>3, <1>4 DEF CheckBinding, At, Doing, OnlyChecks, NoImport
  <2>2. BindingsInv'
    BY <1>1, <1>4, CheckBindingKeeps
  <2>3. QED
    BY <1>2, <2>1, <2>2
<1>5. CASE CheckMember \/ CheckIllTyped \/ Solve
  <2>1. /\ phase' = "check" /\ agenda # <<>> /\ Task.do # "save" /\ Then(<<>>)
        /\ UNCHANGED <<session, checked>> /\ NoImport
    BY <1>1, <1>5 DEF CheckMember, CheckIllTyped, Solve, At, Doing, OnlyChecks, NoImport
  <2>2. AgendaInv' /\ DOMAIN module_env' \subseteq Loaded
    BY <1>1, <1>3, <2>1
  <2>3. BindingsInv'
    BY <1>1, <2>1, <2>2, BindingsStay DEF NoImport, session
  <2>4. QED
    BY <1>2, <2>1, <2>2, <2>3
<1>6. CASE ImportCached
  <2>1. phase' = "check"
    BY <1>1, <1>6 DEF ImportCached, OnlyChecks
  <2>2. QED
    BY <1>1, <1>2, <1>6, <2>1, ImportCachedKeeps
<1>7. CASE LoadModule
  <2>1. phase' = "check"
    BY <1>1, <1>7 DEF LoadModule, OnlyChecks
  <2>2. QED
    BY <1>1, <1>2, <1>7, <2>1, LoadModuleKeeps
<1>8. CASE SaveModule
  <2>1. phase' = "check"
    BY <1>1, <1>8 DEF SaveModule, OnlyChecks
  <2>2. QED
    BY <1>1, <1>2, <1>8, <2>1, SaveModuleKeeps
<1>9. CASE ImportFails
  <2>1. /\ agenda # <<>> /\ Task.do = "check" /\ This.tag = "import"
        /\ phase' \in {"exited", "overflow", "undefined"}
        /\ phase' = "overflow" =>
             Imported \in Files /\ Cardinality(InProgress) = MaxDepth
        /\ UNCHANGED <<program, checked, module_ast, loads, module_env>>
    BY <1>9 DEF ImportFails, At, Doing, Stop, session, checker
  <2>2. BindingsInv'
    BY <1>1, <2>1, BindingsStay DEF BindingsInv
  <2>3. ASSUME phase' = "overflow" PROVE Crowded \/ Cyclic
    <3>1. IsSequence(agenda) /\ Task.at \in ImportsOf(Task.text)
      BY <1>1, <2>1, TaskAtHand
    <3>2. QED
      BY <1>1, <2>1, <2>3, <3>1, OverflowHasCause
  <2>4. OverflowIsCyclic'
    <3>1. phase' = "overflow" => Crowded' \/ Cyclic'
      BY <2>1, <2>3, SameTexts
    <3>2. QED
      BY <3>1 DEF OverflowIsCyclic, Crowded, Cyclic
  <2>5. QED
    BY <1>1, <2>1, <2>2, <2>4 DEF ImportsInv
<1>10. QED
  BY <1>4, <1>5, <1>6, <1>7, <1>8, <1>9 DEF TypeCheck

\* The tasks of a line: the line is no file, and has no import in progress.
LEMMA ReadInputKeeps ==
  ASSUME ImportsInv, ReadInput
  PROVE  BindingsInv' /\ AgendaInv'
<1> PICK u : u = program.inputs[input + 1]
  OBVIOUS
<1> PICK each : each = Each("check", u)
  OBVIOUS
<1> PICK solve : solve = Todo("solve", u, 0, u)
  OBVIOUS
<1>next. PICK next : next = each \o <<solve>>
  OBVIOUS
<1> PICK n : n = Len(each)
  OBVIOUS
<1>1. /\ program \in Programs /\ input \in Nat /\ input < Len(program.inputs)
      /\ agenda' = next /\ module_path' = u
      /\ UNCHANGED <<program, checked, module_env, base_name, module_ast, loads>>
  BY <1>next DEF ReadInput, ImportsInv, LoadsInv
<1>2. u \in DOMAIN program.texts /\ u \notin Files
  <2>1. program.inputs \in Seq(DOMAIN program.texts)
    BY <1>1, ProgramsAssumption
  <2>2. input + 1 \in DOMAIN program.inputs
    BY <1>1, <2>1
  <2>3. u \in DOMAIN program.texts /\ u \in Range(program.inputs)
    BY <2>1, <2>2 DEF Range
  <2>4. QED
    BY <2>3 DEF Files, Inputs
<1>3. /\ IsSequence(each) /\ n \in Nat /\ DOMAIN each = 1 .. n /\ DOMAIN Text(u) = 1 .. n
      /\ \A i \in 1 .. n : each[i] = Todo("check", u, i, u)
  BY <1>1, <1>2, TasksOfText
<1>4. /\ DOMAIN next = 1 .. n + 1 /\ next[n + 1] = solve
      /\ \A i \in 1 .. n : next[i] = each[i]
  <2> DEFINE X == Range(each) \cup {solve}
  <2>1. each \in Seq(X) /\ <<solve>> \in Seq(X)
    <3>1. each \in Seq(X) /\ solve \in X
      BY <1>3, SeqMonotonic DEF IsSequence
    <3> HIDE DEF X
    <3>2. QED
      BY <3>1
  <2> HIDE DEF X
  <2>2. /\ next \in Seq(X) /\ Len(next) = Len(each) + Len(<<solve>>)
        /\ \A i \in 1 .. Len(each) : next[i] = each[i]
        /\ \A i \in 1 .. Len(<<solve>>) : next[Len(each) + i] = <<solve>>[i]
    BY <1>next, <2>1, Joined
  <2>3. Len(<<solve>>) = 1 /\ <<solve>>[1] = solve
    OBVIOUS
  <2>4. QED
    BY <2>2, <2>3
<1>5. ASSUME NEW i \in DOMAIN next
      PROVE  \/ i \in 1 .. n /\ next[i].do = "check" /\ next[i].text = u /\ next[i].at = i
             \/ i = n + 1 /\ next[i].do = "solve" /\ next[i].text = u
  <2>1. CASE i \in 1 .. n
    <3>1. next[i] = Todo("check", u, i, u)
      BY <1>3, <1>4, <2>1
    <3>2. QED
      BY <2>1, <3>1 DEF Todo
  <2>2. CASE i = n + 1
    BY <1>4, <2>2 DEF Todo
  <2>3. QED
    BY <1>3, <1>4, <2>1, <2>2
<1>6. Saves(next) = {}
  BY <1>5 DEF Saves
<1>7. InOrder(next)
  <2> SUFFICES ASSUME NEW j \in DOMAIN next, NEW m \in 1 .. j - 1, next[j].do = "check"
               PROVE  next[m].do # "solve" /\ next[m].text = next[j].text /\ next[m].at < next[j].at
    BY DEF InOrder
  <2>1. j \in 1 .. n /\ m \in 1 .. n /\ m < j /\ m \in DOMAIN next /\ m # n + 1
    BY <1>3, <1>4, <1>5
  <2>2. QED
    BY <1>5, <2>1
<1>8. \A k \in DOMAIN next : IsTask(next[k])'
  BY <1>1, <1>2, <1>3, <1>5, SameTexts DEF IsTask
<1>9. PathIsOwn'
  <2>1. \A j \in DOMAIN next : next[j].text \notin Files
    BY <1>2, <1>5
  <2>2. QED
    BY <1>1, <2>1, SameTexts DEF PathIsOwn
<1>10. NamesAreKept' /\ TargetsAreRead' /\ ImportsDiffer'
  BY <1>1, <1>6 DEF NamesAreKept, TargetsAreRead, ImportsDiffer
<1>11. Nested(next)
  BY <1>6 DEF Nested
<1>12. BindingsInv'
  BY <1>1, BindingsStay DEF ImportsInv, BindingsInv
<1>13. QED
  BY <1>1, <1>2, <1>7, <1>8, <1>9, <1>10, <1>11, <1>12 DEF AgendaInv

\* Code generation binds no name of the type checker's.
LEMMA GenerateBindings ==
  ASSUME BindingsInv, Generate
  PROVE  /\ BindingsInv' /\ phase = "generate" /\ phase' \in {"generate", "exited", "undefined"}
         /\ DOMAIN module_env' = DOMAIN module_env
<1>1. ASSUME UNCHANGED <<program, checked, module_ast, loads>>,
             DOMAIN module_env' = DOMAIN module_env
      PROVE  BindingsInv'
  BY <1>1, BindingsStay DEF BindingsInv
<1>2. CASE GenLet \/ GenOther \/ GenMember \/ GenImportLinked \/ GenImport
  BY <1>1, <1>2 DEF GenLet, GenOther, GenMember, GenImportLinked, GenImport, At, Doing,
                    OnlyGenerates, session, checker
<1>3. CASE GenUntyped \/ GenMissingMember \/ GenImportFails \/ LinkFails \/ BindFails
  BY <1>1, <1>3 DEF GenUntyped, GenMissingMember, GenImportFails, LinkFails, BindFails, At,
                    Doing, Stop, session, checker
<1>4. CASE LinkModule
  <2>1. /\ phase = "generate" /\ UNCHANGED <<program, checked, module_ast, loads, phase>>
        /\ \E entry : module_env' = [module_env EXCEPT ![Task.path] = entry]
    BY <1>4 DEF LinkModule, Doing, OnlyGenerates, session, checker
  <2>2. DOMAIN module_env' = DOMAIN module_env
    BY <2>1
  <2>3. QED
    BY <1>1, <2>1, <2>2
<1>5. QED
  BY <1>2, <1>3, <1>4 DEF Generate

LEMMA InitImportsInv == Init => ImportsInv
<1> SUFFICES ASSUME Init PROVE ImportsInv
  OBVIOUS
<1>1. LoadsInv
  BY InitLoadsInv
<1>2. Loaded = {}
  <2>1. DOMAIN <<>> = {}
    OBVIOUS
  <2>2. loads = <<>>
    BY DEF Init
  <2>3. Range(loads) = {}
    BY <2>1, <2>2 DEF Range
  <2>4. QED
    BY <2>3 DEF Loaded
<1>3. DOMAIN NoNames = {}
  BY DEF NoNames
<1>4. QED
  BY <1>1, <1>2, <1>3 DEF Init, ImportsInv, BindingsInv, NamesOfModules, OverflowIsCyclic

LEMMA NextImportsInv == ImportsInv /\ [Next]_vars => ImportsInv'
<1> SUFFICES ASSUME ImportsInv, [Next]_vars PROVE ImportsInv'
  OBVIOUS
<1>1. LoadsInv' /\ BindingsInv
  BY NextLoadsInv DEF ImportsInv
<1>2. CASE ReadInput
  <2>1. phase' = "check"
    BY <1>2 DEF ReadInput
  <2>2. QED
    BY <1>1, <1>2, <2>1, ReadInputKeeps DEF ImportsInv, OverflowIsCyclic
<1>3. CASE TypeCheck
  BY <1>3, TypeCheckKeeps
<1>4. CASE Reject \/ Accept \/ EndInput
  <2>1. /\ phase' \in {"idle", "generate"}
        /\ UNCHANGED <<program, checked, module_ast, loads, module_env>>
    BY <1>4 DEF Reject, Accept, EndInput, session, checker
  <2>2. BindingsInv'
    BY <1>1, <2>1, BindingsStay DEF BindingsInv
  <2>3. QED
    BY <1>1, <2>1, <2>2 DEF ImportsInv, OverflowIsCyclic
<1>5. CASE Generate
  <2>1. BindingsInv' /\ phase' \in {"generate", "exited", "undefined"}
    BY <1>1, <1>5, GenerateBindings
  <2>2. QED
    BY <1>1, <2>1 DEF ImportsInv, OverflowIsCyclic
<1>6. CASE UNCHANGED vars
  <2>1. UNCHANGED <<program, checked, module_ast, loads, module_env, phase, agenda,
                    module_path, base_name>>
    BY <1>6 DEF vars, session, checker
  <2>2. BindingsInv'
    BY <1>1, <2>1, BindingsStay DEF BindingsInv
  <2>3. AgendaInv => AgendaInv'
    <3>1. \A k : IsTask(agenda[k])' <=> IsTask(agenda[k])
      BY <2>1, SameTexts DEF IsTask, Loaded
    <3>2. NamesAreKept' = NamesAreKept /\ PathIsOwn' = PathIsOwn
      BY <2>1, SameTexts DEF NamesAreKept, PathIsOwn, IsNextImport
    <3>3. TargetsAreRead' = TargetsAreRead /\ ImportsDiffer' = ImportsDiffer
      BY <2>1, SameTexts DEF TargetsAreRead, ImportsDiffer
    <3>4. QED
      BY <2>1, <3>1, <3>2, <3>3, SameTexts DEF AgendaInv
  <2>4. OverflowIsCyclic'
    <3>1. phase = "overflow" => Crowded' \/ Cyclic'
      BY <2>1, SameTexts DEF ImportsInv, OverflowIsCyclic, Crowded, Cyclic
    <3>2. QED
      BY <2>1, <3>1 DEF OverflowIsCyclic, Crowded, Cyclic
  <2>5. QED
    BY <1>1, <2>1, <2>2, <2>3, <2>4 DEF ImportsInv
<1>7. QED
  BY <1>2, <1>3, <1>4, <1>5, <1>6 DEF Next

LEMMA ImportsInvariance == Spec => []ImportsInv
BY InitImportsInv, NextImportsInv, PTL DEF Spec

-----------------------------------------------------------------------------
(* The LLVM modules under construction.                                    *)

\* All but the outermost, which is the session's, are of modules in the cache.
ContextsInv ==
  /\ IsSequence(contexts) /\ contexts # <<>>
  /\ \A k \in 1 .. Len(contexts) - 1 :
       "path" \in DOMAIN contexts[k] /\ contexts[k].path \in DOMAIN module_env

\* What is generated into a context leaves its path.
KeepsPath(after, before) ==
  "path" \in DOMAIN before => "path" \in DOMAIN after /\ after.path = before.path

LEMMA InnermostKeeps ==
  ASSUME ContextsInv, NEW context, InContext(context), KeepsPath(context, Context),
         DOMAIN module_env' = DOMAIN module_env
  PROVE  ContextsInv'
<1> DEFINE one == <<context>>
<1>next. PICK next : next = one \o Tail(contexts)
  OBVIOUS
<1>1. one \in Seq({context}) /\ Len(one) = 1 /\ one[1] = context /\ one # <<>>
  OBVIOUS
<1>2. IsSequence(one)
  BY <1>1, SequenceOf
<1>3. contexts' = next
  BY <1>next DEF InContext
<1> HIDE DEF one
<1>4. /\ IsSequence(next) /\ DOMAIN next = 1 .. 1 + Len(contexts) - 1
      /\ Len(contexts) \in Nat \ {0} /\ Context = contexts[1]
      /\ \A i \in 1 .. 1 : next[i] = one[i]
      /\ \A i \in 2 .. Len(contexts) : next[1 + i - 1] = contexts[i]
  <2>1. IsSequence(contexts) /\ contexts # <<>>
    BY DEF ContextsInv
  <2>2. Context = contexts[1]
    BY <2>1, RestOf DEF Context
  <2>3. QED
    BY <1>1, <1>2, <1>next, <2>1, <2>2, Entered
<1>5. Len(next) = Len(contexts) /\ next # <<>>
  <2>1. DOMAIN next = 1 .. Len(next) /\ Len(next) \in Nat
    BY <1>4 DEF IsSequence
  <2>2. 1 + Len(contexts) - 1 = Len(contexts)
    BY <1>4
  <2>3. Len(next) = Len(contexts)
    BY <1>4, <2>1, <2>2
  <2>4. QED
    BY <1>4, <2>3
<1>6. ASSUME NEW k \in 1 .. Len(next) - 1
      PROVE  "path" \in DOMAIN next[k] /\ next[k].path \in DOMAIN module_env
  <2>1. "path" \in DOMAIN contexts[k] /\ contexts[k].path \in DOMAIN module_env
    BY <1>5 DEF ContextsInv
  <2>2. CASE k = 1
    BY <1>1, <1>4, <2>1, <2>2 DEF KeepsPath
  <2>3. CASE k # 1
    <3>1. k \in 2 .. Len(contexts) /\ 1 + k - 1 = k
      BY <1>4, <1>5, <2>3
    <3>2. next[k] = contexts[k]
      BY <1>4, <3>1
    <3>3. QED
      BY <2>1, <3>2
  <2>4. QED
    BY <2>2, <2>3
<1>7. QED
  BY <1>3, <1>4, <1>5, <1>6 DEF ContextsInv

LEMMA SamePath ==
  \A context, name, symbol :
    /\ KeepsPath(Valued(context), context)
    /\ KeepsPath(Insert(context, name, symbol), context)
    /\ KeepsPath(Valued(Insert(context, name, symbol)), context)
<1> SUFFICES ASSUME NEW context, NEW name, NEW symbol
             PROVE  /\ KeepsPath(Valued(context), context)
                    /\ KeepsPath(Insert(context, name, symbol), context)
                    /\ KeepsPath(Valued(Insert(context, name, symbol)), context)
  OBVIOUS
<1>1. \A c : KeepsPath(Valued(c), c)
  BY DEF KeepsPath, Valued
<1>2. KeepsPath(Insert(context, name, symbol), context)
  BY DEF KeepsPath, Insert
<1>3. QED
  BY <1>1, <1>2 DEF KeepsPath

\* A sequence with one more in front.
IsInFront(t, x, s) == t = <<x>> \o s

LEMMA OneInFront ==
  ASSUME NEW x, NEW s, IsSequence(s), NEW t, IsInFront(t, x, s)
  PROVE  /\ IsSequence(t) /\ t # <<>>
         /\ Len(s) \in Nat /\ Len(t) = 1 + Len(s)
         /\ t[1] = x
         /\ \A i \in 1 .. Len(s) : t[1 + i] = s[i]
<1> DEFINE one == <<x>>
           X == Range(s) \cup {x}
<1>1. s \in Seq(X) /\ x \in X
  BY SeqMonotonic DEF IsSequence
<1> HIDE DEF X
<1>2. one \in Seq(X) /\ Len(one) = 1 /\ one[1] = x
  BY <1>1
<1>3. t = one \o s
  BY DEF IsInFront
<1> HIDE DEF one
<1>4. /\ t \in Seq(X) /\ Len(t) = Len(one) + Len(s)
      /\ \A i \in 1 .. Len(one) : t[i] = one[i]
      /\ \A i \in 1 .. Len(s) : t[Len(one) + i] = s[i]
  <2>1. /\ one \o s \in Seq(X) /\ Len(one \o s) = Len(one) + Len(s)
        /\ \A i \in 1 .. Len(one) : (one \o s)[i] = one[i]
        /\ \A i \in 1 .. Len(s) : (one \o s)[Len(one) + i] = s[i]
    BY <1>1, <1>2, Joined
  <2>2. QED
    BY <1>3, <2>1
<1>5. Len(s) \in Nat
  BY <1>1
<1>6. t # <<>>
  BY <1>2, <1>4, <1>5
<1>7. IsSequence(t)
  BY <1>4, SequenceOf
<1>8. QED
  BY <1>2, <1>4, <1>5, <1>6, <1>7

\* A module to generate: it is in the cache.
LEMMA OneMoreContext ==
  ASSUME ContextsInv, NEW context, IsInFront(contexts', context, contexts),
         "path" \in DOMAIN context, context.path \in DOMAIN module_env,
         DOMAIN module_env' = DOMAIN module_env
  PROVE  ContextsInv'
<1>1. PICK next : contexts' = next /\ IsInFront(next, context, contexts)
  OBVIOUS
<1>2. /\ IsSequence(next) /\ next # <<>>
      /\ Len(contexts) \in Nat /\ Len(next) = 1 + Len(contexts)
      /\ next[1] = context
      /\ \A i \in 1 .. Len(contexts) : next[1 + i] = contexts[i]
  <2>1. IsSequence(contexts)
    BY DEF ContextsInv
  <2>2. IsSequence(next) /\ next # <<>>
    BY <1>1, <2>1, OneInFront
  <2>3. Len(contexts) \in Nat /\ Len(next) = 1 + Len(contexts)
    BY <1>1, <2>1, OneInFront
  <2>4. next[1] = context
    BY <1>1, <2>1, OneInFront
  <2>5. \A i \in 1 .. Len(contexts) : next[1 + i] = contexts[i]
    BY <1>1, <2>1, OneInFront
  <2>6. QED
    BY <2>2, <2>3, <2>4, <2>5
<1>3. ASSUME NEW k \in 1 .. Len(next) - 1
      PROVE  "path" \in DOMAIN next[k] /\ next[k].path \in DOMAIN module_env
  <2>1. CASE k = 1
    BY <1>2, <2>1
  <2>2. CASE k # 1
    <3>1. k - 1 \in 1 .. Len(contexts) - 1 /\ k - 1 \in 1 .. Len(contexts) /\ 1 + (k - 1) = k
      BY <1>2, <2>2
    <3>2. next[k] = contexts[k - 1]
      BY <1>2, <3>1
    <3>3. QED
      BY <3>1, <3>2 DEF ContextsInv
  <2>3. QED
    BY <2>1, <2>2
<1>4. QED
  BY <1>1, <1>2, <1>3 DEF ContextsInv

\* A module that is linked: what it was linked into is the innermost.
LEMMA OneContextLess ==
  ASSUME ContextsInv, NEW context,
         IsInFront(contexts', context, SubSeq(contexts, 3, Len(contexts))),
         KeepsPath(context, contexts[2]),
         DOMAIN module_env' = DOMAIN module_env
  PROVE  ContextsInv'
<1> PICK n : n = Len(contexts)
  OBVIOUS
<1>rest. PICK rest : rest = SubSeq(contexts, 3, n)
  OBVIOUS
<1>1. PICK next : contexts' = next /\ IsInFront(next, context, rest)
  BY <1>rest
<1>2. contexts \in Seq(Range(contexts)) /\ n \in Nat
  BY DEF ContextsInv, IsSequence
<1>3. /\ rest \in Seq(Range(contexts)) /\ Len(rest) = IF n > 2 THEN n - 2 ELSE 0
      /\ \A i \in 1 .. Len(rest) : rest[i] = contexts[i + 2]
  BY <1>2, <1>rest
<1>4. /\ IsSequence(next) /\ next # <<>>
      /\ Len(rest) \in Nat /\ Len(next) = 1 + Len(rest)
      /\ next[1] = context
      /\ \A i \in 1 .. Len(rest) : next[1 + i] = rest[i]
  <2>1. IsSequence(rest)
    BY <1>3, SequenceOf
  <2>2. IsSequence(next) /\ next # <<>>
    BY <1>1, <2>1, OneInFront
  <2>3. Len(rest) \in Nat /\ Len(next) = 1 + Len(rest)
    BY <1>1, <2>1, OneInFront
  <2>4. next[1] = context
    BY <1>1, <2>1, OneInFront
  <2>5. \A i \in 1 .. Len(rest) : next[1 + i] = rest[i]
    BY <1>1, <2>1, OneInFront
  <2>6. QED
    BY <2>2, <2>3, <2>4, <2>5
<1>5. ASSUME NEW k \in 1 .. Len(next) - 1
      PROVE  "path" \in DOMAIN next[k] /\ next[k].path \in DOMAIN module_env
  <2>1. n > 2 /\ k + 1 \in 1 .. n - 1
    BY <1>2, <1>3, <1>4
  <2>2. "path" \in DOMAIN contexts[k + 1] /\ contexts[k + 1].path \in DOMAIN module_env
    BY <2>1 DEF ContextsInv
  <2>3. CASE k = 1
    BY <1>4, <2>2, <2>3 DEF KeepsPath
  <2>4. CASE k # 1
    <3>1. k - 1 \in 1 .. Len(rest) /\ 1 + (k - 1) = k /\ (k - 1) + 2 = k + 1
      BY <1>3, <1>4, <2>1, <2>4
    <3>2. next[k] = contexts[k + 1]
      BY <1>3, <1>4, <3>1
    <3>3. QED
      BY <2>2, <3>2
  <2>5. QED
    BY <2>3, <2>4
<1>6. QED
  BY <1>1, <1>4, <1>5 DEF ContextsInv

\* Code generation.
LEMMA GenerateKeepsContexts ==
  ASSUME ContextsInv, BindingsInv, Generate
  PROVE  ContextsInv'
<1>1. DOMAIN module_env' = DOMAIN module_env
  BY GenerateBindings
<1>2. ASSUME contexts' = contexts PROVE ContextsInv'
  BY <1>1, <1>2 DEF ContextsInv, IsSequence
<1>3. CASE GenLet
  <2> PICK name : name = This.name
    OBVIOUS
  <2> PICK variable : variable = [kind |-> "variable"]
    OBVIOUS
  <2>1. PICK context :
          /\ InContext(context)
          /\ \/ context = Valued(Context)
             \/ context = Valued(Insert(Context, name, variable))
             \/ \E names :
                  context = [Valued(Insert(Context, name, variable)) EXCEPT !.names = names]
    BY <1>3 DEF GenLet
  <2>2. KeepsPath(context, Context)
    BY <2>1, SamePath DEF KeepsPath
  <2>3. QED
    BY <1>1, <2>1, <2>2, InnermostKeeps
<1>4. CASE GenOther
  <2>1. contexts' = contexts \/ InContext(Valued(Context))
    BY <1>4 DEF GenOther
  <2>2. QED
    BY <1>1, <1>2, <2>1, SamePath, InnermostKeeps
<1>5. CASE GenMember
  <2>1. contexts' = contexts \/ InContext(Valued(Context))
    BY <1>5 DEF GenMember
  <2>2. QED
    BY <1>1, <1>2, <2>1, SamePath, InnermostKeeps
<1>6. CASE GenImportLinked
  <2>1. PICK name, symbol : InContext(Valued(Insert(Context, name, symbol)))
    BY <1>6 DEF GenImportLinked, WithModule
  <2>2. QED
    BY <1>1, <2>1, SamePath, InnermostKeeps
<1>7. CASE GenImport
  <2> PICK context : context = NewContext(Resolved, module_ast[Here])
    OBVIOUS
  <2>1. contexts' = <<context>> \o contexts /\ Resolved \in DOMAIN module_env
    BY <1>7 DEF GenImport
  <2>2. "path" \in DOMAIN context /\ context.path = Resolved
    BY DEF NewContext
  <2>3. QED
    BY <1>1, <2>1, <2>2, OneMoreContext DEF IsInFront
<1>8. CASE LinkModule
  <2>1. PICK names, name, symbol :
          contexts' = <<Valued(Insert([contexts[2] EXCEPT !.names = names], name, symbol))>>
                      \o SubSeq(contexts, 3, Len(contexts))
    BY <1>8 DEF LinkModule, WithModule
  <2> PICK importer : importer = [contexts[2] EXCEPT !.names = names]
    OBVIOUS
  <2>2. KeepsPath(importer, contexts[2])
    BY DEF KeepsPath
  <2>3. KeepsPath(Valued(Insert(importer, name, symbol)), contexts[2])
    BY <2>2, SamePath DEF KeepsPath
  <2>4. QED
    BY <1>1, <2>1, <2>3, OneContextLess DEF IsInFront
<1>9. CASE GenUntyped \/ GenMissingMember \/ GenImportFails \/ LinkFails \/ BindFails
  BY <1>2, <1>9 DEF GenUntyped, GenMissingMember, GenImportFails, LinkFails, BindFails, Stop
<1>10. QED
  BY <1>3, <1>4, <1>5, <1>6, <1>7, <1>8, <1>9 DEF Generate

LEMMA NextContextsInv ==
  ASSUME BindingsInv, ContextsInv, [Next]_vars PROVE ContextsInv'
<1>1. ASSUME contexts' = contexts, DOMAIN module_env \subseteq DOMAIN module_env' PROVE ContextsInv'
  BY <1>1 DEF ContextsInv, IsSequence
<1>2. CASE ReadInput \/ Reject
  BY <1>1, <1>2 DEF ReadInput, Reject
<1>3. CASE TypeCheck
  <2>1. contexts' = contexts
    BY <1>3 DEF TypeCheck, CheckBinding, CheckMember, CheckIllTyped, ImportCached, LoadModule,
                ImportFails, Solve, SaveModule, OnlyChecks, Stop
  <2>2. DOMAIN module_env \subseteq DOMAIN module_env'
    BY <1>3 DEF TypeCheck, CheckBinding, CheckMember, CheckIllTyped, ImportCached, LoadModule,
                ImportFails, Solve, SaveModule, NoImport, Stop, save_module, Extended
  <2>3. QED
    BY <1>1, <2>1, <2>2
<1>4. CASE Accept \/ EndInput
  <2>1. PICK table : InContext([Context EXCEPT !.table = table])
    BY <1>4 DEF Accept, EndInput
  <2> PICK context : context = [Context EXCEPT !.table = table]
    OBVIOUS
  <2>2. KeepsPath(context, Context)
    BY DEF KeepsPath
  <2>3. DOMAIN module_env' = DOMAIN module_env
    BY <1>4 DEF Accept, EndInput
  <2>4. QED
    BY <2>1, <2>2, <2>3, InnermostKeeps
<1>5. CASE Generate
  BY <1>5, GenerateKeepsContexts
<1>6. CASE UNCHANGED vars
  BY <1>1, <1>6 DEF vars
<1>7. QED
  BY <1>2, <1>3, <1>4, <1>5, <1>6 DEF Next

LEMMA InitContextsInv == Init => ContextsInv
<1> SUFFICES ASSUME Init PROVE ContextsInv
  OBVIOUS
<1> PICK context : contexts = <<context>>
  BY DEF Init
<1>1. contexts \in Seq({context}) /\ Len(contexts) = 1 /\ contexts # <<>>
  OBVIOUS
<1>2. IsSequence(contexts)
  BY <1>1, SequenceOf
<1>3. QED
  BY <1>1, <1>2 DEF ContextsInv

LEMMA ContextsInvariance == Spec => []ContextsInv
<1>1. ImportsInv => BindingsInv
  BY DEF ImportsInv
<1>2. QED
  BY <1>1, InitContextsInv, NextContextsInv, ImportsInvariance, PTL DEF Spec

-----------------------------------------------------------------------------
(* The results.                                                            *)

\* However many modules and lines import a file, and whether or not it was rejected,
\* it is read and type-checked once, unless it imports itself and its own check is
\* still going on (get_module looks into the cache first, and parse_module saves
\* what it read).
THEOREM FilesAreLoadedOnce == Spec => LoadedOnce
<1> DEFINE Once ==
      loads' # loads =>
        LET path == Last(loads').path
        IN  path \in {l.path : l \in Range(loads)} => \E k \in InProgress : agenda[k].path = path
<1>1. ASSUME LoadsInv, [Next]_vars PROVE [Once]_loads
  <2> SUFFICES ASSUME loads' # loads
               PROVE  Once
    OBVIOUS
  <2>1. LoadModule
    BY <1>1 DEF Next, ReadInput, TypeCheck, CheckBinding, CheckMember, CheckIllTyped,
                ImportCached, ImportFails, Solve, SaveModule, NoImport, Stop, Reject, Accept,
                Generate, GenLet, GenUntyped, GenOther, GenMember, GenMissingMember,
                GenImportLinked, GenImport, GenImportFails, LinkModule, LinkFails, BindFails,
                OnlyGenerates, EndInput, vars
  <2>2. /\ phase = "check" /\ Imported \notin DOMAIN module_env
        /\ loads' = Append(loads, [by |-> Here, path |-> Imported])
    BY <2>1 DEF LoadModule, At, Doing
  <2> PICK load : load = [by |-> Here, path |-> Imported]
    OBVIOUS
  <2>3. Last(loads') = load
    BY <1>1, <2>2, LastOfAppend DEF LoadsInv
  <2>4. ASSUME NEW l \in Range(loads), l.path = Imported
        PROVE  \E k \in InProgress : agenda[k].path = Imported
    BY <1>1, <2>2, <2>4 DEF LoadsInv, LoadsAreKept, Saving
  <2>5. QED
    BY <2>3, <2>4
<1>2. QED
  BY <1>1, LoadsInvariance, PTL DEF Spec, LoadedOnce

\* What is cached, bound or generated is a text of the program; the cache has only
\* files that have been read, and every module that is being generated
\* (typecheck.c's import case, save_module, codegen_module).
THEOREM ModulesTypes == Spec => []TypeOK
<1>1. ImportsInv /\ ContextsInv => TypeOK
  BY DEF ImportsInv, BindingsInv, ContextsInv, TypeOK, Loaded
<1>2. QED
  BY <1>1, ImportsInvariance, ContextsInvariance, PTL

\* A name that a file has is bound to a file of that name, in whatever order modules
\* and lines import it, unless the file imports another: the name is read from
\* basename's buffer when the module has been checked.
THEOREM ModulesAreNamed == Spec => []NamesOfModules
<1>1. ImportsInv => NamesOfModules
  BY DEF ImportsInv, BindingsInv
<1>2. QED
  BY <1>1, ImportsInvariance, PTL

\* With stack for one import of every file, the type checker only runs out of it when
\* files import each other in a circle, or for a file of two imports, the second of
\* which may be taken for a file it does not name (the import case of typecheck.c leaves
\* module_path at the module it read).
THEOREM OverflowsAreCyclic == Spec => []OverflowIsCyclic
<1>1. ImportsInv => OverflowIsCyclic
  BY DEF ImportsInv
<1>2. QED
  BY <1>1, ImportsInvariance, PTL

=============================================================================
