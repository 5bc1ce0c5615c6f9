---------------------------- MODULE OutputProofs ----------------------------
(***************************************************************************)
(* Theorems about Output: the files on the disk, what is in them, and the  *)
(* page in a browser, for any settings, scripts and measurements.          *)
(***************************************************************************)
EXTENDS Output, FiniteSetTheorems, SequenceTheorems, WellFoundedInduction, TLAPS

LEMMA FirstMeasured == 1 \in DOMAIN Measured
<1>1. Measured \in Seq({Measured[n] : n \in DOMAIN Measured}) /\ Measured # <<>>
  BY OutputAssumption DEF OutputAssumption
<1> QED BY <1>1

LEMMA NextMeasured ==
    ASSUME NEW n \in DOMAIN Measured, n < Len(Measured)
    PROVE  n + 1 \in DOMAIN Measured
<1>1. Measured \in Seq({Measured[k] : k \in DOMAIN Measured})
  BY OutputAssumption DEF OutputAssumption
<1> QED BY <1>1

\* What Dump writes.
Writers == {"none", "html", "text", "json", "dot"}

LEMMA WrittenProfileIs ==
    /\ WrittenProfile.writer = WriterOf(OutputFormat(settings))
    /\ WrittenProfile.writer \in {"none", "html", "text", "json"}
    /\ WrittenProfile.script = script
    /\ WrittenProfile.measured = measured
<1>1. WriterOf(OutputFormat(settings)) \in {"none", "html", "text", "json"}
  BY DEF WriterOf
<1> QED BY <1>1 DEF WrittenProfile, Empty

LEMMA WrittenCallsIs ==
    /\ WrittenCalls.writer =
           IF CallGraphFormat(settings) = <<"dot">> THEN "dot" ELSE "none"
    /\ WrittenCalls.script = script
    /\ WrittenCalls.measured = measured
  BY DEF WrittenCalls, Empty

\* A file after Dump is an old one or one of those that it writes.
LEMMA DumpWrites ==
    ASSUME NEW cannotOpen, DumpFiles(cannotOpen)
    PROVE  /\ denied' = cannotOpen
           /\ DOMAIN files \subseteq DOMAIN files'
           /\ \A k \in DOMAIN files' :
                 \/ k \in DOMAIN files /\ files'[k] = files[k]
                 \/ attached /\ k = ProfileFile /\ files'[k] = WrittenProfile
                 \/ attached /\ k = CallsFile /\ files'[k] = WrittenCalls
           /\ attached => \A kind \in Kinds \ cannotOpen :
                 /\ FileOf(kind) \in DOMAIN files'
                 /\ files'[FileOf(kind)] \in {WrittenProfile, WrittenCalls}
<1> DEFINE opened == IF attached THEN Kinds \ cannotOpen ELSE {}
           written == {FileOf(kind) : kind \in opened}
<1>1. /\ denied' = cannotOpen
      /\ files' = [f \in written \cup DOMAIN files |->
                      IF f \notin written THEN files[f]
                      ELSE IF f = ProfileFile THEN WrittenProfile
                      ELSE WrittenCalls]
  BY DEF DumpFiles
<1>2. \A f \in written : attached /\ f \in {ProfileFile, CallsFile}
  BY DEF FileOf
<1> HIDE DEF written
<1>3. \A k \in DOMAIN files' :
          \/ k \in DOMAIN files /\ files'[k] = files[k]
          \/ attached /\ k = ProfileFile /\ files'[k] = WrittenProfile
          \/ attached /\ k = CallsFile /\ files'[k] = WrittenCalls
  BY <1>1, <1>2
<1>4. \A f \in written :
          f \in DOMAIN files' /\ files'[f] \in {WrittenProfile, WrittenCalls}
  BY <1>1
<1>5. attached => \A kind \in Kinds \ cannotOpen : FileOf(kind) \in written
  BY DEF written
<1> QED BY <1>1, <1>3, <1>4, <1>5

-----------------------------------------------------------------------------
(* Types                                                                   *)

LEMMA TypeInit == Init => TypeOK
<1> SUFFICES ASSUME Init PROVE TypeOK
  OBVIOUS
<1>1. settings.call_graph \in BOOLEAN
  BY DEF Init, Settings, GetBool
<1>2. DOMAIN files = {}
  BY DEF Init
<1> QED BY <1>1, <1>2, FirstMeasured DEF Init, TypeOK

LEMMA DumpType ==
    ASSUME TypeOK, script # None,
           NEW cannotOpen \in SUBSET {"profile", "calls"}, DumpFiles(cannotOpen)
    PROVE  /\ denied' \subseteq {"profile", "calls"}
           /\ \A k \in DOMAIN files' :
                 /\ files'[k].script \in DOMAIN Disk
                 /\ files'[k].writer \in Writers
<1>1. script \in DOMAIN Disk
  BY DEF TypeOK
<1>2. /\ WrittenProfile.script = script /\ WrittenProfile.writer \in Writers
      /\ WrittenCalls.script = script /\ WrittenCalls.writer \in Writers
  BY WrittenProfileIs, WrittenCallsIs DEF Writers
<1>3. ASSUME NEW k \in DOMAIN files'
      PROVE  /\ files'[k].script \in DOMAIN Disk
             /\ files'[k].writer \in Writers
  <2>1. CASE k \in DOMAIN files /\ files'[k] = files[k]
    BY <2>1 DEF TypeOK, Writers
  <2>2. CASE files'[k] \in {WrittenProfile, WrittenCalls}
    BY <1>1, <1>2, <2>2
  <2> QED BY <1>3, <2>1, <2>2, DumpWrites
<1> QED BY <1>3, DumpWrites

LEMMA TypeStep == TypeOK /\ [Next]_vars => TypeOK'
<1> SUFFICES ASSUME TypeOK, [Next]_vars PROVE TypeOK'
  OBVIOUS
<1> USE DEF TypeOK
<1>1. CASE AmxLoad
  <2>1. PICK scripts \in Loaded : script' \in scripts
    BY <1>1 DEF AmxLoad
  <2>2. script' \in DOMAIN Disk /\ script' # None
    BY <2>1, OutputAssumption DEF OutputAssumption
  <2>3. attached' \in BOOLEAN
    BY <1>1 DEF AmxLoad, ShouldBeProfiled
  <2>4. /\ measured' = 1 /\ denied' = {}
        /\ UNCHANGED <<lines, settings, files, page>>
    BY <1>1 DEF AmxLoad
  <2> QED BY <2>2, <2>3, <2>4, FirstMeasured
<1>2. CASE ProfilerStart
  BY <1>2 DEF ProfilerStart
<1>3. CASE Run
  BY <1>3, NextMeasured DEF Run
<1>4. CASE ProfilerDump
  <2>1. PICK cannotOpen \in SUBSET {"profile", "calls"} : DumpFiles(cannotOpen)
    BY <1>4 DEF ProfilerDump
  <2>2. /\ denied' \subseteq {"profile", "calls"}
        /\ \A k \in DOMAIN files' : /\ files'[k].script \in DOMAIN Disk
                                    /\ files'[k].writer \in Writers
    BY <1>4, <2>1, DumpType DEF ProfilerDump
  <2> QED BY <1>4, <2>2 DEF ProfilerDump, Writers
<1>5. CASE AmxUnload
  <2>1. PICK cannotOpen \in SUBSET {"profile", "calls"} : DumpFiles(cannotOpen)
    BY <1>5 DEF AmxUnload
  <2>2. /\ denied' \subseteq {"profile", "calls"}
        /\ \A k \in DOMAIN files' : /\ files'[k].script \in DOMAIN Disk
                                    /\ files'[k].writer \in Writers
    BY <1>5, <2>1, DumpType DEF AmxUnload
  <2> QED BY <1>5, <2>2, FirstMeasured DEF AmxUnload, Writers
<1>6. CASE OpenPage
  <2>1. page'.asc \in [0 .. 10 -> BOOLEAN]
    BY <1>6 DEF OpenPage, NewPage
  <2> QED BY <1>6, <2>1 DEF OpenPage
<1>7. ASSUME NEW cell \in Clicks, Click(cell)
      PROVE  TypeOK'
  <2>1. page.asc \in [0 .. 10 -> BOOLEAN] /\ page' = Clicked(page, cell)
    BY <1>7 DEF Click
  <2>2. page'.asc = [page.asc EXCEPT ![cell[2]] = ~@]
    BY <2>1 DEF Clicked
  <2>3. page'.asc \in [0 .. 10 -> BOOLEAN]
    BY <2>1, <2>2
  <2> QED BY <1>7, <2>3 DEF Click
<1>8. CASE UNCHANGED vars
  BY <1>8 DEF vars
<1> QED BY <1>1, <1>2, <1>3, <1>4, <1>5, <1>6, <1>7, <1>8 DEF Next

\* The variables stay in their types: only a script that is loaded is attached
\* to, and every file on the disk is of a script and in one of the formats.
THEOREM TypeCorrect == Spec => []TypeOK
  BY TypeInit, TypeStep, PTL DEF Spec

\* Unloading a profiled script writes whatever can be opened, about all of the
\* run: nothing that was measured is lost between the last dump and the end, and
\* the profile and the call graph tell of the same moment (AmxUnload, Dump).
THEOREM UnloadAlwaysWritesAll == Spec => UnloadWritesAll
<1> DEFINE Complete ==
        attached /\ script' = None =>
            \A kind \in Kinds \ denied' :
                /\ FileOf(kind) \in DOMAIN files'
                /\ files'[FileOf(kind)].script = script
                /\ files'[FileOf(kind)].measured = measured
<1>1. TypeOK /\ [Next]_vars => [Complete]_vars
  <2> SUFFICES ASSUME TypeOK, Next, attached, script' = None
               PROVE  Complete
    OBVIOUS
  <2>1. script # None
    BY DEF TypeOK
  <2>2. CASE AmxLoad
    BY <2>1, <2>2 DEF AmxLoad
  <2>3. CASE AmxUnload
    <3>1. PICK cannotOpen \in SUBSET {"profile", "calls"} : DumpFiles(cannotOpen)
      BY <2>3 DEF AmxUnload
    <3>2. \A kind \in Kinds \ denied' :
              /\ FileOf(kind) \in DOMAIN files'
              /\ files'[FileOf(kind)] \in {WrittenProfile, WrittenCalls}
      BY <3>1, DumpWrites
    <3> QED BY <3>2, WrittenProfileIs, WrittenCallsIs
  <2>4. CASE script' = script
    BY <2>1, <2>4
  <2>5. \/ AmxLoad \/ AmxUnload \/ script' = script
    BY DEF Next, ProfilerStart, Run, ProfilerDump, OpenPage, Click
  <2> QED BY <2>2, <2>3, <2>4, <2>5
<1>2. Spec => [][Complete]_vars
  BY <1>1, TypeCorrect, PTL DEF Spec
<1> QED BY <1>2 DEF UnloadWritesAll

-----------------------------------------------------------------------------
(* Files that stay                                                         *)

\* The scripts that are loaded in a run, and their reports, have names of their
\* own: that is up to who writes server.cfg and names the scripts.
NamesDiffer ==
    \A scripts \in Loaded, config \in ConfigFiles :
        LET s == Settings(config)
        IN  \A p, q \in scripts :
                /\ ProfileName(p, s) = ProfileName(q, s) => p = q
                /\ CallsName(p, s) = CallsName(q, s) => p = q
                /\ ProfileName(p, s) # CallsName(q, s)

\* The script that a file with something in it is of can be told from its name,
\* and the writer from the settings.
FilesInv ==
    /\ lines \in ConfigFiles /\ settings = Settings(lines)
    /\ \/ script = None /\ DOMAIN files = {}
       \/ \E scripts \in Loaded :
             /\ script # None => script \in scripts
             /\ \A k \in DOMAIN files : files[k].script \in scripts
    /\ \A k \in DOMAIN files :
          \/ files[k].writer = "none"
          \/ /\ files[k].writer = "dot"
             /\ CallGraphFormat(settings) = <<"dot">>
             /\ k = CallsName(files[k].script, settings)
          \/ /\ files[k].writer = WriterOf(OutputFormat(settings))
             /\ k = ProfileName(files[k].script, settings)

LEMMA FilesInit == Init => FilesInv
<1> SUFFICES ASSUME Init PROVE FilesInv
  OBVIOUS
<1>1. DOMAIN files = {}
  BY DEF Init
<1> QED BY <1>1 DEF Init, FilesInv

\* Dump keeps it, also if the script is unloaded in the same step.
LEMMA DumpKeepsFiles ==
    ASSUME FilesInv, TypeOK, script # None, NEW cannotOpen, DumpFiles(cannotOpen),
           UNCHANGED <<lines, settings>>, script' \in {script, None}
    PROVE  FilesInv'
<1>1. PICK scripts \in Loaded :
          /\ script \in scripts
          /\ \A k \in DOMAIN files : files[k].script \in scripts
  BY DEF FilesInv
<1>2. ASSUME NEW k \in DOMAIN files'
      PROVE  /\ files'[k].script \in scripts
             /\ \/ files'[k].writer = "none"
                \/ /\ files'[k].writer = "dot"
                   /\ CallGraphFormat(settings) = <<"dot">>
                   /\ k = CallsName(files'[k].script, settings)
                \/ /\ files'[k].writer = WriterOf(OutputFormat(settings))
                   /\ k = ProfileName(files'[k].script, settings)
  <2>1. CASE k \in DOMAIN files /\ files'[k] = files[k]
    BY <1>1, <2>1 DEF FilesInv
  <2>2. CASE k = ProfileFile /\ files'[k] = WrittenProfile
    BY <1>1, <2>2, WrittenProfileIs DEF ProfileFile
  <2>3. CASE k = CallsFile /\ files'[k] = WrittenCalls
    BY <1>1, <2>3, WrittenCallsIs DEF CallsFile
  <2> QED BY <2>1, <2>2, <2>3, DumpWrites
<1>3. script' # None => script' \in scripts
  BY <1>1
<1>4. /\ lines' \in ConfigFiles /\ settings' = Settings(lines')
      /\ settings' = settings
  BY DEF FilesInv
<1> QED BY <1>1, <1>2, <1>3, <1>4 DEF FilesInv

LEMMA FilesStep == TypeOK /\ FilesInv /\ [Next]_vars => FilesInv'
<1> SUFFICES ASSUME TypeOK, FilesInv, [Next]_vars PROVE FilesInv'
  OBVIOUS
<1>1. CASE AmxLoad
  <2>1. UNCHANGED <<lines, settings, files>>
    BY <1>1 DEF AmxLoad
  <2>2. PICK scripts \in Loaded :
            /\ script' \in scripts
            /\ \A k \in DOMAIN files : files[k].script \in scripts
    BY <1>1 DEF AmxLoad
  <2> QED BY <2>1, <2>2 DEF FilesInv
<1>2. CASE ProfilerDump
  <2>1. PICK cannotOpen \in SUBSET {"profile", "calls"} : DumpFiles(cannotOpen)
    BY <1>2 DEF ProfilerDump
  <2> QED BY <1>2, <2>1, DumpKeepsFiles DEF ProfilerDump
<1>3. CASE AmxUnload
  <2>1. PICK cannotOpen \in SUBSET {"profile", "calls"} : DumpFiles(cannotOpen)
    BY <1>3 DEF AmxUnload
  <2> QED BY <1>3, <2>1, DumpKeepsFiles DEF AmxUnload
<1>4. CASE UNCHANGED <<lines, settings, script, files>>
  BY <1>4 DEF FilesInv
<1>5. \/ AmxLoad \/ ProfilerDump \/ AmxUnload
      \/ UNCHANGED <<lines, settings, script, files>>
  BY DEF Next, ProfilerStart, Run, OpenPage, Click, vars
<1> QED BY <1>1, <1>2, <1>3, <1>4, <1>5

LEMMA DumpReplacesItsOwn ==
    ASSUME NamesDiffer, TypeOK, FilesInv, script # None,
           NEW cannotOpen, DumpFiles(cannotOpen),
           NEW k \in DOMAIN files, files[k].writer # "none"
    PROVE  /\ k \in DOMAIN files'
           /\ files'[k].writer = files[k].writer
           /\ files'[k].script = files[k].script
<1>1. PICK scripts \in Loaded :
          /\ script \in scripts
          /\ \A f \in DOMAIN files : files[f].script \in scripts
  BY DEF FilesInv
<1> DEFINE of == files[k].script
<1>2. of \in scripts
  BY <1>1
<1>3. /\ ProfileName(of, settings) = ProfileFile => of = script
      /\ CallsName(of, settings) = CallsFile => of = script
      /\ ProfileName(of, settings) # CallsFile
      /\ CallsName(of, settings) # ProfileFile
  BY <1>1, <1>2 DEF NamesDiffer, FilesInv, ProfileFile, CallsFile
<1>4. \/ /\ files[k].writer = "dot"
         /\ CallGraphFormat(settings) = <<"dot">>
         /\ k = CallsName(of, settings)
      \/ /\ files[k].writer = WriterOf(OutputFormat(settings))
         /\ k = ProfileName(of, settings)
  BY DEF FilesInv
<1>5. k \in DOMAIN files'
  BY DumpWrites
<1>6. CASE files'[k] = files[k]
  BY <1>5, <1>6
<1>7. CASE k = ProfileFile /\ files'[k] = WrittenProfile
  BY <1>3, <1>4, <1>5, <1>7, WrittenProfileIs
<1>8. CASE k = CallsFile /\ files'[k] = WrittenCalls
  BY <1>3, <1>4, <1>5, <1>8, WrittenCallsIs
<1> QED BY <1>5, <1>6, <1>7, <1>8, DumpWrites

\* A profile on the disk is only ever replaced by a later one of the same script
\* and in the same format, as long as no two files are meant to have one name
\* (Dump).
THEOREM ProfilesAlwaysStay ==
    ASSUME NamesDiffer
    PROVE  Spec => ProfilesStay
<1> DEFINE Stay ==
        \A k \in DOMAIN files :
            files[k].writer # "none" =>
                /\ k \in DOMAIN files'
                /\ files'[k].writer = files[k].writer
                /\ files'[k].script = files[k].script
<1>1. TypeOK /\ FilesInv /\ [Next]_vars => [Stay]_files
  <2> SUFFICES ASSUME TypeOK, FilesInv, [Next]_vars, files' # files
               PROVE  Stay
    OBVIOUS
  <2>1. ProfilerDump \/ AmxUnload
    BY DEF Next, AmxLoad, ProfilerStart, Run, OpenPage, Click, vars
  <2>2. script # None
    BY <2>1 DEF ProfilerDump, AmxUnload
  <2>3. PICK cannotOpen \in SUBSET {"profile", "calls"} : DumpFiles(cannotOpen)
    BY <2>1 DEF ProfilerDump, AmxUnload
  <2> QED BY <2>2, <2>3, DumpReplacesItsOwn
<1>2. TypeOK /\ FilesInv /\ [Next]_vars => (TypeOK /\ FilesInv)'
  BY TypeStep, FilesStep
<1>3. Init => TypeOK /\ FilesInv
  BY TypeInit, FilesInit
<1>4. Spec => [][Stay]_files
  BY <1>1, <1>2, <1>3, PTL DEF Spec
<1> QED BY <1>4 DEF ProfilesStay

-----------------------------------------------------------------------------
(* Contents                                                                *)

\* A file tells how long the script had run when it was written.
DurationInv ==
    \A k \in DOMAIN files :
        /\ files[k].measured \in DOMAIN Measured
        /\ files[k].writer \in {"html", "text"} =>
               files[k].duration = TimeSpan(Measured[files[k].measured].ran)
        /\ files[k].writer = "json" =>
               files[k].duration = JsonDuration(Measured[files[k].measured].ran)

\* TimeSpan loses nothing but the milliseconds.
LEMMA TimeSpanIsRight ==
    ASSUME NEW ms \in Nat
    PROVE  LET span == TimeSpan(ms)
           IN  /\ span.hours * 3600 + span.minutes * 60 + span.seconds
                      = ms \div 1000
               /\ {span.minutes, span.seconds} \subseteq 0 .. 59
<1> DEFINE hours == ms \div 3600000
           rest == ms - hours * 3600000
           minutes == rest \div 60000
           seconds == (rest - minutes * 60000) \div 1000
<1>1. hours \in Nat /\ rest \in Nat /\ rest < 3600000
  BY SMT
<1>2. /\ minutes \in 0 .. 59
      /\ rest - minutes * 60000 \in Nat /\ rest - minutes * 60000 < 60000
  BY <1>1, SMT
<1>3. seconds \in 0 .. 59
  BY <1>2, SMT
<1>4. hours * 3600 + minutes * 60 + seconds = ms \div 1000
  <2>1. ASSUME NEW h \in Nat, NEW m \in Nat, NEW r \in Nat
        PROVE  (h * 3600000 + m * 60000 + r) \div 1000
                   = h * 3600 + m * 60 + r \div 1000
    BY SMT
  <2>2. ms = hours * 3600000 + minutes * 60000 + (rest - minutes * 60000)
    BY <1>1, <1>2, SMT
  <2> QED BY <1>1, <1>2, <2>1, <2>2, SMT
<1>5. TimeSpan(ms) = [hours |-> hours, minutes |-> minutes, seconds |-> seconds]
  BY SMT DEF TimeSpan
<1>6. minutes \in 0 .. 59 /\ seconds \in 0 .. 59
  BY <1>2, <1>3
<1> HIDE DEF hours, rest, minutes, seconds
<1>7. /\ TimeSpan(ms).hours = hours /\ TimeSpan(ms).minutes = minutes
      /\ TimeSpan(ms).seconds = seconds
  BY <1>5, SMT
<1> QED BY <1>4, <1>6, <1>7, SMT

\* Six digits have an error of one 200000th at most.
LEMMA SixDigitsAreClose ==
    ASSUME NEW n \in Nat, n \div 1000 < 2147483647
    PROVE  /\ SixDigits(n) \in Nat
           /\ 200000 * (SixDigits(n) - n) <= n
           /\ 200000 * (n - SixDigits(n)) <= n
<1> DEFINE IsUnit(u) == /\ n \div u < 1000000
                        /\ u = 1 \/ n \div u >= 100000
           unit == CHOOSE u \in DigitUnits : IsUnit(u)
<1>1. \E u \in DigitUnits : IsUnit(u)
  BY SMT DEF DigitUnits
<1>2. unit \in DigitUnits /\ IsUnit(unit)
  BY <1>1
<1>3. SixDigits(n) = unit * ((n + unit \div 2) \div unit)
  BY DEF SixDigits
<1> HIDE DEF unit
<1>4. CASE unit = 1
  BY <1>2, <1>3, <1>4, SMT
<1>5. ASSUME NEW u \in DigitUnits \ {1}, unit = u
      PROVE  /\ SixDigits(n) \in Nat
             /\ 200000 * (SixDigits(n) - n) <= n
             /\ 200000 * (n - SixDigits(n)) <= n
  BY <1>2, <1>3, <1>5, SMT DEF DigitUnits
<1> QED BY <1>2, <1>4, <1>5

LEMMA DurationStep == TypeOK /\ DurationInv /\ [Next]_vars => DurationInv'
<1> SUFFICES ASSUME TypeOK, DurationInv, [Next]_vars PROVE DurationInv'
  OBVIOUS
<1>1. CASE files' = files
  BY <1>1 DEF DurationInv
<1>2. ASSUME NEW cannotOpen, DumpFiles(cannotOpen)
      PROVE  DurationInv'
  <2>1. ASSUME NEW k \in DOMAIN files'
        PROVE  /\ files'[k].measured \in DOMAIN Measured
               /\ files'[k].writer \in {"html", "text"} =>
                      files'[k].duration
                          = TimeSpan(Measured[files'[k].measured].ran)
               /\ files'[k].writer = "json" =>
                      files'[k].duration
                          = JsonDuration(Measured[files'[k].measured].ran)
    <3>1. CASE k \in DOMAIN files /\ files'[k] = files[k]
      BY <3>1 DEF DurationInv
    <3>2. CASE files'[k] = WrittenProfile
      <4>1. WrittenProfile.writer # "none" =>
                WrittenProfile.duration =
                    IF WrittenProfile.writer = "json"
                    THEN JsonDuration(Measured[measured].ran)
                    ELSE TimeSpan(Measured[measured].ran)
        BY WrittenProfileIs DEF WrittenProfile, Empty
      <4> QED BY <3>2, <4>1, WrittenProfileIs DEF TypeOK
    <3>3. CASE files'[k] = WrittenCalls
      BY <3>3, WrittenCallsIs DEF TypeOK
    <3> QED BY <1>2, <2>1, <3>1, <3>2, <3>3, DumpWrites
  <2> QED BY <2>1 DEF DurationInv
<1>3. ProfilerDump \/ AmxUnload \/ files' = files
  BY DEF Next, AmxLoad, ProfilerStart, Run, OpenPage, Click, vars
<1> QED BY <1>1, <1>2, <1>3 DEF ProfilerDump, AmxUnload

\* Whatever is on the disk shows the time that its script had run, whenever it
\* was written, in whole seconds or with six digits: a part of ReportsAreSound
\* (TimeSpan::TimeSpan, StatisticsWriterJson::Write).
THEOREM DurationsAlwaysRight == Spec => []DurationsAreRight
<1>1. Init => TypeOK /\ DurationInv
  <2>1. Init => DOMAIN files = {}
    BY DEF Init
  <2> QED BY <2>1, TypeInit DEF DurationInv
<1>2. TypeOK /\ DurationInv /\ [Next]_vars => (TypeOK /\ DurationInv)'
  BY TypeStep, DurationStep
<1>3. DurationInv => DurationsAreRight
  <2> SUFFICES ASSUME DurationInv, NEW k \in DOMAIN files
               PROVE  LET duration == files[k].duration
                          ran == Measured[files[k].measured].ran
                      IN  /\ k \in Tables =>
                                /\ duration.hours * 3600 + duration.minutes * 60
                                       + duration.seconds = ran \div 1000
                                /\ {duration.minutes, duration.seconds}
                                       \subseteq 0 .. 59
                          /\ files[k].writer = "json" =>
                                /\ duration.scale = 1000
                                /\ 200000 * (duration.value - ran) <= ran
                                /\ 200000 * (ran - duration.value) <= ran
    BY DEF DurationsAreRight
  <2> DEFINE ran == Measured[files[k].measured].ran
  <2>1. /\ k \in Tables => files[k].duration = TimeSpan(ran)
        /\ files[k].writer = "json" => files[k].duration = JsonDuration(ran)
    BY DEF DurationInv, Tables
  <2>2. ran \in Nat /\ ran \div 1000 < 2147483647
    BY OutputAssumption DEF OutputAssumption, DurationInv
  <2>3. CASE k \in Tables
    <3>1. files[k].writer # "json"
      BY <2>3 DEF Tables
    <3> QED BY <2>1, <2>2, <2>3, <3>1, TimeSpanIsRight
  <2>4. CASE k \notin Tables /\ files[k].writer = "json"
    <3>1. /\ files[k].duration.scale = 1000
          /\ files[k].duration.value = SixDigits(ran)
      BY <2>1, <2>4 DEF JsonDuration
    <3> QED BY <2>2, <2>4, <3>1, SixDigitsAreClose
  <2> QED BY <2>3, <2>4
<1> QED BY <1>1, <1>2, <1>3, PTL DEF Spec

-----------------------------------------------------------------------------
(* The first of many                                                       *)

\* A set of numbers that is not empty has a least one: what is wrong for some
\* number is wrong for a first one.
LEMMA LeastExists ==
    ASSUME NEW found \in SUBSET Nat, found # {}
    PROVE  \E n \in found : \A m \in found : n <= m
<1>1. PICK n \in found : \A m \in found : ~(<<m, n>> \in OpToRel(<, Nat))
  BY NatLessThanWellFounded, WFMin
<1>2. \A m \in found : ~(m < n)
  BY <1>1 DEF OpToRel
<1> QED BY <1>2

-----------------------------------------------------------------------------
(* The order of the rows                                                   *)

\* Of two rows that are equal in the column the one that was first stays first.
Precedes(key, m, n) == key[m] < key[n] \/ (key[m] = key[n] /\ m < n)

\* The rows among the first i that are before row n when those are sorted.
Preceding(key, i, n) == {m \in 1 .. i : Precedes(key, m, n)}

\* Where row n is when the first i rows are sorted.
Place(key, i, n) ==
    IF n <= i THEN Cardinality(Preceding(key, i, n)) + 1 ELSE n

LEMMA PrecedingType ==
    ASSUME NEW N \in Nat, NEW key \in [1 .. N -> Int], NEW i \in 0 .. N,
           NEW n \in 1 .. N
    PROVE  /\ IsFiniteSet(Preceding(key, i, n))
           /\ Cardinality(Preceding(key, i, n)) \in 0 .. i
           /\ n <= i => Cardinality(Preceding(key, i, n)) < i
<1>1. IsFiniteSet(1 .. i) /\ Cardinality(1 .. i) = i
  BY FS_Interval
<1>2. Preceding(key, i, n) \in SUBSET (1 .. i)
  BY DEF Preceding
<1>3. /\ IsFiniteSet(Preceding(key, i, n))
      /\ Cardinality(Preceding(key, i, n)) \in Nat
      /\ Cardinality(Preceding(key, i, n)) <= i
      /\ Cardinality(Preceding(key, i, n)) = i => Preceding(key, i, n) = 1 .. i
  BY <1>1, <1>2, FS_Subset, FS_CardinalityType
<1>4. n \notin Preceding(key, i, n)
  BY DEF Preceding, Precedes
<1>5. n <= i => Preceding(key, i, n) # 1 .. i
  BY <1>4
<1> QED BY <1>3, <1>5

LEMMA PlaceType ==
    ASSUME NEW N \in Nat, NEW key \in [1 .. N -> Int], NEW i \in 0 .. N,
           NEW n \in 1 .. N
    PROVE  /\ Place(key, i, n) \in 1 .. N
           /\ n <= i => Place(key, i, n) \in 1 .. i
<1>1. /\ Cardinality(Preceding(key, i, n)) \in 0 .. i
      /\ n <= i => Cardinality(Preceding(key, i, n)) < i
  BY PrecedingType
<1> QED BY <1>1 DEF Place

\* Sorted rows are at places in their order.
LEMMA PlacesInOrder ==
    ASSUME NEW N \in Nat, NEW key \in [1 .. N -> Int], NEW i \in 0 .. N,
           NEW a \in 1 .. i, NEW b \in 1 .. i, Precedes(key, a, b)
    PROVE  Place(key, i, a) < Place(key, i, b)
<1> DEFINE A == Preceding(key, i, a)
           B == Preceding(key, i, b)
<1>1. a \notin A /\ A \cup {a} \subseteq B
  BY DEF Preceding, Precedes
<1>2. /\ IsFiniteSet(A) /\ Cardinality(A) \in Nat
      /\ IsFiniteSet(B) /\ Cardinality(B) \in Nat
  <2>1. a \in 1 .. N /\ b \in 1 .. N
    OBVIOUS
  <2>2. /\ IsFiniteSet(A) /\ Cardinality(A) \in 0 .. i
    BY <2>1, PrecedingType
  <2>3. /\ IsFiniteSet(B) /\ Cardinality(B) \in 0 .. i
    BY <2>1, PrecedingType
  <2> HIDE DEF A, B
  <2> QED BY <2>2, <2>3
<1>3. Cardinality(A \cup {a}) = Cardinality(A) + 1
  BY <1>1, <1>2, FS_AddElement
<1>4. Cardinality(A \cup {a}) <= Cardinality(B)
  BY <1>1, <1>2, FS_Subset
<1>5. Place(key, i, a) = Cardinality(A) + 1 /\ Place(key, i, b) = Cardinality(B) + 1
  BY DEF Place
<1> HIDE DEF A, B
<1> QED BY <1>2, <1>3, <1>4, <1>5

\* Two rows are never at one place.
LEMMA PlacesDiffer ==
    ASSUME NEW N \in Nat, NEW key \in [1 .. N -> Int], NEW i \in 0 .. N,
           NEW m \in 1 .. N, NEW n \in 1 .. N, m # n
    PROVE  Place(key, i, m) # Place(key, i, n)
<1>1. \A a, b \in 1 .. i :
          Precedes(key, a, b) => Place(key, i, a) < Place(key, i, b)
  BY PlacesInOrder
<1>2. CASE m <= i /\ n <= i
  <2>1. Precedes(key, m, n) \/ Precedes(key, n, m)
    BY DEF Precedes
  <2>2. Place(key, i, m) \in Int /\ Place(key, i, n) \in Int
    BY PlaceType
  <2> QED BY <1>1, <1>2, <2>1, <2>2
<1>3. CASE ~(m <= i /\ n <= i)
  <2>1. m <= i => Place(key, i, m) \in 1 .. i
    BY PlaceType
  <2>2. n <= i => Place(key, i, n) \in 1 .. i
    BY PlaceType
  <2>3. /\ m > i => Place(key, i, m) = m
        /\ n > i => Place(key, i, n) = n
    BY DEF Place
  <2> QED BY <1>3, <2>1, <2>2, <2>3
<1> QED BY <1>2, <1>3

\* Every place is that of a row.
LEMMA PlaceExists ==
    ASSUME NEW N \in Nat, NEW key \in [1 .. N -> Int], NEW i \in 0 .. N,
           NEW p \in 1 .. N
    PROVE  /\ \E n \in 1 .. N : Place(key, i, n) = p
           /\ p <= i => \E n \in 1 .. i : Place(key, i, n) = p
<1> DEFINE f == [n \in 1 .. N |-> Place(key, i, n)]
<1>1. f \in [1 .. N -> 1 .. N]
  BY PlaceType
<1>2. \A m, n \in 1 .. N : f[m] = f[n] => m = n
  BY PlacesDiffer
<1>3. f \in Injection(1 .. N, 1 .. N)
  BY <1>1, <1>2 DEF Injection, IsInjective
<1>4. IsFiniteSet(1 .. N)
  BY FS_Interval
<1>5. f \in Surjection(1 .. N, 1 .. N)
  BY <1>3, <1>4, FS_Injection
<1>6. PICK n \in 1 .. N : f[n] = p
  BY <1>5 DEF Surjection
<1>7. Place(key, i, n) = p
  BY <1>6
<1>8. p <= i => n <= i
  BY <1>7 DEF Place
<1> QED BY <1>7, <1>8

\* The first i rows are sorted, the others are where they were.
SortedTo(rows, key, i) ==
    [p \in 1 .. Len(rows) |->
        rows[CHOOSE n \in 1 .. Len(rows) : Place(key, i, n) = p]]

LEMMA SortedToIs ==
    ASSUME NEW R, NEW rows \in Seq(R), NEW key \in [1 .. Len(rows) -> Int],
           NEW i \in 0 .. Len(rows)
    PROVE  /\ SortedTo(rows, key, i) \in Seq(R)
           /\ Len(SortedTo(rows, key, i)) = Len(rows)
           /\ \A n \in 1 .. Len(rows) :
                 SortedTo(rows, key, i)[Place(key, i, n)] = rows[n]
<1> DEFINE N == Len(rows)
           At(p) == CHOOSE n \in 1 .. N : Place(key, i, n) = p
<1>1. N \in Nat
  OBVIOUS
<1>2. \A p \in 1 .. N : At(p) \in 1 .. N /\ Place(key, i, At(p)) = p
  BY <1>1, PlaceExists
<1>3. \A n \in 1 .. N : /\ Place(key, i, n) \in 1 .. N
                         /\ At(Place(key, i, n)) = n
  <2> SUFFICES ASSUME NEW n \in 1 .. N
               PROVE  Place(key, i, n) \in 1 .. N /\ At(Place(key, i, n)) = n
    OBVIOUS
  <2>1. Place(key, i, n) \in 1 .. N
    BY <1>1, PlaceType
  <2>2. /\ At(Place(key, i, n)) \in 1 .. N
        /\ Place(key, i, At(Place(key, i, n))) = Place(key, i, n)
    BY <1>2, <2>1
  <2> HIDE DEF At
  <2> QED BY <1>1, <2>1, <2>2, PlacesDiffer
<1>4. SortedTo(rows, key, i) = [p \in 1 .. N |-> rows[At(p)]]
  BY DEF SortedTo
<1> HIDE DEF At
<1>5. \A p \in 1 .. N : rows[At(p)] \in R
  BY <1>2
<1>6. SortedTo(rows, key, i) \in [1 .. N -> R]
  BY <1>4, <1>5
<1> HIDE DEF N
<1>7. \A n \in 1 .. N : SortedTo(rows, key, i)[Place(key, i, n)] = rows[n]
  BY <1>3, <1>4
<1>8. SortedTo(rows, key, i) \in Seq(R) /\ Len(SortedTo(rows, key, i)) = N
  BY <1>1, <1>6
<1> QED BY <1>7, <1>8 DEF N

\* A sequence without its i-th element, and with one more at place p.
LEMMA RemovedIs ==
    ASSUME NEW R, NEW s \in Seq(R), NEW i \in 1 .. Len(s)
    PROVE  /\ RemoveAt(s, i) \in Seq(R) /\ Len(RemoveAt(s, i)) = Len(s) - 1
           /\ \A n \in 1 .. Len(s) - 1 :
                 RemoveAt(s, i)[n] = IF n < i THEN s[n] ELSE s[n + 1]
<1> DEFINE front == SubSeq(s, 1, i - 1)
           back == SubSeq(s, i + 1, Len(s))
<1>1. Len(s) \in Nat /\ \A n \in 1 .. Len(s) : s[n] \in R
  OBVIOUS
<1>2. /\ front \in Seq(R) /\ Len(front) = i - 1
      /\ \A n \in 1 .. i - 1 : front[n] = s[n]
  BY <1>1, SubSeqProperties
<1>3. /\ back \in Seq(R) /\ Len(back) = Len(s) - i
      /\ \A n \in 1 .. Len(s) - i : back[n] = s[n + i]
  BY <1>1, SubSeqProperties
<1> HIDE DEF front, back
<1>4. /\ front \o back \in Seq(R) /\ Len(front \o back) = Len(front) + Len(back)
      /\ \A n \in 1 .. Len(front) + Len(back) :
            (front \o back)[n] = IF n <= Len(front) THEN front[n]
                                 ELSE back[n - Len(front)]
  BY <1>2, <1>3, ConcatProperties
<1>5. ASSUME NEW n \in 1 .. Len(s) - 1
      PROVE  (front \o back)[n] = IF n < i THEN s[n] ELSE s[n + 1]
  <2>1. CASE n < i
    BY <2>1, <1>1, <1>2, <1>3, <1>4
  <2>2. CASE n >= i
    <3>1. n - Len(front) \in 1 .. Len(s) - i /\ (n - Len(front)) + i = n + 1
      BY <2>2, <1>1, <1>2
    <3>2. (front \o back)[n] = back[n - Len(front)]
      BY <2>2, <1>1, <1>2, <1>3, <1>4
    <3>3. back[n - Len(front)] = s[(n - Len(front)) + i]
      BY <3>1, <1>3
    <3>4. (front \o back)[n] = s[n + 1]
      BY <3>1, <3>2, <3>3
    <3> QED BY <2>2, <3>4
  <2>3. n < i \/ n >= i
    BY <1>1
  <2> QED BY <2>1, <2>2, <2>3
<1>6. RemoveAt(s, i) = front \o back
  BY DEF RemoveAt, front, back
<1>7. Len(front \o back) = Len(s) - 1
  BY <1>1, <1>2, <1>3, <1>4
<1> QED BY <1>4, <1>5, <1>6, <1>7

\* t is s with e at place p.
Inserted(t, s, p, e) ==
    /\ Len(t) = Len(s) + 1
    /\ \A n \in 1 .. Len(s) + 1 :
          t[n] = IF n < p THEN s[n] ELSE IF n = p THEN e ELSE s[n - 1]

LEMMA InsertedIs ==
    \A R : \A s \in Seq(R) : \A p \in 1 .. Len(s) + 1 : \A e \in R :
        InsertAt(s, p, e) \in Seq(R) /\ Inserted(InsertAt(s, p, e), s, p, e)
<1> SUFFICES ASSUME NEW R, NEW s \in Seq(R), NEW p \in 1 .. Len(s) + 1, NEW e \in R
             PROVE  /\ InsertAt(s, p, e) \in Seq(R)
                    /\ Inserted(InsertAt(s, p, e), s, p, e)
  OBVIOUS
<1> DEFINE front == SubSeq(s, 1, p - 1)
           back == SubSeq(s, p, Len(s))
           middle == <<e>>
<1>1. Len(s) \in Nat /\ \A n \in 1 .. Len(s) : s[n] \in R
  OBVIOUS
<1>2. /\ front \in Seq(R) /\ Len(front) = p - 1
      /\ \A n \in 1 .. p - 1 : front[n] = s[n]
  BY <1>1, SubSeqProperties
<1>3. /\ back \in Seq(R) /\ Len(back) = Len(s) - p + 1
      /\ \A n \in 1 .. Len(s) - p + 1 : back[n] = s[p + n - 1]
  BY <1>1, SubSeqProperties
<1>4. middle \in Seq(R) /\ Len(middle) = 1 /\ middle[1] = e
  OBVIOUS
<1> HIDE DEF front, back, middle
<1> DEFINE start == front \o middle
<1>5. /\ start \in Seq(R) /\ Len(start) = p
      /\ \A n \in 1 .. p : start[n] = IF n < p THEN s[n] ELSE e
  <2>1. /\ start \in Seq(R) /\ Len(start) = Len(front) + Len(middle)
        /\ \A n \in 1 .. Len(front) + Len(middle) :
              start[n] = IF n <= Len(front) THEN front[n] ELSE middle[n - Len(front)]
    BY <1>2, <1>4, ConcatProperties
  <2> QED BY <2>1, <1>1, <1>2, <1>4
<1> HIDE DEF start
<1>6. /\ start \o back \in Seq(R) /\ Len(start \o back) = Len(start) + Len(back)
      /\ \A n \in 1 .. Len(start) + Len(back) :
            (start \o back)[n] = IF n <= Len(start) THEN start[n]
                                 ELSE back[n - Len(start)]
  BY <1>3, <1>5, ConcatProperties
<1>7. ASSUME NEW n \in 1 .. Len(s) + 1
      PROVE  (start \o back)[n] = IF n < p THEN s[n] ELSE IF n = p THEN e
                                  ELSE s[n - 1]
  <2>1. CASE n <= p
    BY <2>1, <1>1, <1>3, <1>5, <1>6
  <2>2. CASE n > p
    <3>1. n - p \in 1 .. Len(s) - p + 1 /\ p + (n - p) - 1 = n - 1
      BY <2>2, <1>1
    <3>2. (start \o back)[n] = back[n - p]
      BY <2>2, <1>1, <1>3, <1>5, <1>6
    <3>3. back[n - p] = s[p + (n - p) - 1]
      BY <3>1, <1>3
    <3>4. (start \o back)[n] = s[n - 1]
      BY <3>1, <3>2, <3>3
    <3> QED BY <2>2, <3>4
  <2>3. n <= p \/ n > p
    BY <1>1
  <2> QED BY <2>1, <2>2, <2>3
<1>8. InsertAt(s, p, e) = start \o back
  BY DEF InsertAt, start, front, middle, back
<1>9. Len(start \o back) = Len(s) + 1
  BY <1>1, <1>3, <1>5, <1>6
<1>10. Inserted(start \o back, s, p, e)
  BY <1>7, <1>9 DEF Inserted
<1> QED BY <1>6, <1>8, <1>10

\* t is s with the element at i moved to p.
Moved(t, s, i, p) ==
    /\ Len(t) = Len(s)
    /\ \A n \in 1 .. Len(s) : t[n] = IF n < p THEN s[n]
                                     ELSE IF n = p THEN s[i]
                                     ELSE IF n <= i THEN s[n - 1]
                                     ELSE s[n]

\* What the body of the loop does to the places.
LEMMA MovedIs ==
    ASSUME NEW R, NEW s \in Seq(R), NEW i \in 1 .. Len(s), NEW p \in 1 .. i
    PROVE  /\ InsertAt(RemoveAt(s, i), p, s[i]) \in Seq(R)
           /\ Moved(InsertAt(RemoveAt(s, i), p, s[i]), s, i, p)
<1> DEFINE r == RemoveAt(s, i)
           e == s[i]
           t == InsertAt(r, p, e)
<1>1. Len(s) \in Nat /\ e \in R
  OBVIOUS
<1>2. /\ r \in Seq(R) /\ Len(r) = Len(s) - 1
      /\ \A n \in 1 .. Len(s) - 1 : r[n] = IF n < i THEN s[n] ELSE s[n + 1]
  BY RemovedIs
<1> HIDE DEF r, e
<1>3. /\ t \in Seq(R) /\ Len(t) = Len(s)
      /\ \A n \in 1 .. Len(s) : t[n] = IF n < p THEN r[n] ELSE IF n = p THEN e
                                       ELSE r[n - 1]
  <2>1. Len(r) + 1 = Len(s) /\ p \in 1 .. Len(r) + 1 /\ r \in Seq(R)
    BY <1>1, <1>2
  <2>2. r \in Seq(R) /\ p \in 1 .. Len(r) + 1 /\ e \in R
    BY <1>1, <2>1
  <2>3. t \in Seq(R) /\ Inserted(t, r, p, e)
    BY <2>2, InsertedIs
  <2> HIDE DEF t
  <2> QED BY <2>1, <2>3 DEF Inserted
<1> HIDE DEF t
<1>4. ASSUME NEW n \in 1 .. Len(s)
      PROVE  t[n] = IF n < p THEN s[n] ELSE IF n = p THEN e
                    ELSE IF n <= i THEN s[n - 1] ELSE s[n]
  <2>1. CASE n < p
    BY <2>1, <1>1, <1>2, <1>3
  <2>2. CASE n = p
    BY <2>2, <1>3
  <2>3. CASE n > p
    <3>1. n - 1 \in 1 .. Len(s) - 1 /\ (n - 1) + 1 = n
      BY <2>3, <1>1
    <3>2. t[n] = r[n - 1]
      BY <2>3, <1>1, <1>3
    <3> QED BY <2>3, <3>1, <3>2, <1>1, <1>2
  <2> QED BY <2>1, <2>2, <2>3
<1>5. Moved(t, s, i, p)
  BY <1>3, <1>4 DEF Moved, e
<1> QED BY <1>3, <1>5 DEF t, r, e

-----------------------------------------------------------------------------
\* Where the rows are when one more is sorted.
PlacesChange(key, N, i) ==
    /\ Place(key, i, i) \in 1 .. i
    /\ Place(key, i - 1, i) = i
    /\ \A n \in i + 1 .. N : Place(key, i, n) = n /\ Place(key, i - 1, n) = n
    /\ \A n \in 1 .. i - 1 :
          \/ /\ key[n] <= key[i]
             /\ Place(key, i, n) = Place(key, i - 1, n)
             /\ Place(key, i - 1, n) < Place(key, i, i)
          \/ /\ key[i] < key[n]
             /\ Place(key, i, n) = Place(key, i - 1, n) + 1
             /\ Place(key, i, i) <= Place(key, i - 1, n)

LEMMA PlaceStep ==
    ASSUME NEW N \in Nat, NEW key \in [1 .. N -> Int], NEW i \in 1 .. N
    PROVE  PlacesChange(key, N, i)
<1> DEFINE q == Place(key, i, i)
<1>1. q \in 1 .. i
  <2>1. i \in 0 .. N /\ i <= i
    OBVIOUS
  <2> QED BY <2>1, PlaceType
<1>2. /\ Place(key, i - 1, i) = i
      /\ \A n \in i + 1 .. N : Place(key, i, n) = n /\ Place(key, i - 1, n) = n
  BY DEF Place
<1>3. ASSUME NEW n \in 1 .. i - 1
      PROVE  \/ /\ key[n] <= key[i]
                /\ Place(key, i, n) = Place(key, i - 1, n)
                /\ Place(key, i - 1, n) < q
             \/ /\ key[i] < key[n]
                /\ Place(key, i, n) = Place(key, i - 1, n) + 1
                /\ q <= Place(key, i - 1, n)
  <2> DEFINE A == Preceding(key, i - 1, n)
             B == Preceding(key, i, n)
  <2>1. i - 1 \in 0 .. N /\ n \in 1 .. N /\ i \in 0 .. N /\ n \in 1 .. i /\ i \in 1 .. i
    OBVIOUS
  <2>2. IsFiniteSet(A) /\ Cardinality(A) \in 0 .. i - 1
    BY <2>1, PrecedingType
  <2>3. /\ Place(key, i - 1, n) = Cardinality(A) + 1
        /\ Place(key, i, n) = Cardinality(B) + 1
    BY DEF Place
  <2>4. CASE key[n] <= key[i]
    <3>1. Precedes(key, n, i) /\ ~Precedes(key, i, n)
      BY <2>4 DEF Precedes
    <3>2. A = B
      BY <3>1 DEF Preceding
    <3>3. Place(key, i, n) < q
      BY <2>1, <3>1, PlacesInOrder
    <3> QED BY <2>3, <2>4, <3>2, <3>3
  <2>5. CASE key[i] < key[n]
    <3>1. Precedes(key, i, n)
      BY <2>5 DEF Precedes
    <3>2. B = A \cup {i} /\ i \notin A
      BY <3>1 DEF Preceding
    <3>3. Cardinality(B) = Cardinality(A) + 1
      BY <2>2, <3>2, FS_AddElement
    <3>4. q < Place(key, i, n)
      BY <2>1, <3>1, PlacesInOrder
    <3> HIDE DEF A, B, q
    <3> QED BY <1>1, <2>2, <2>3, <2>5, <3>3, <3>4
  <2>6. key[n] \in Int /\ key[i] \in Int
    BY <2>1
  <2> QED BY <2>4, <2>5, <2>6
<1> QED BY <1>1, <1>2, <1>3 DEF PlacesChange

\* The rows are sorted if each is at its place.
LEMMA SortedIfPlaced ==
    ASSUME NEW R, NEW rows \in Seq(R), NEW key \in [1 .. Len(rows) -> Int],
           NEW i \in 0 .. Len(rows), NEW t \in Seq(R), Len(t) = Len(rows),
           \A n \in 1 .. Len(rows) : t[Place(key, i, n)] = rows[n]
    PROVE  t = SortedTo(rows, key, i)
<1> DEFINE N == Len(rows)
           s == SortedTo(rows, key, i)
<1>1. N \in Nat
  OBVIOUS
<1>2. /\ s \in Seq(R) /\ Len(s) = N
      /\ \A n \in 1 .. N : s[Place(key, i, n)] = rows[n]
  BY SortedToIs
<1>3. ASSUME NEW p \in 1 .. N
      PROVE  t[p] = s[p]
  <2>1. PICK n \in 1 .. N : Place(key, i, n) = p
    BY <1>1, PlaceExists
  <2> HIDE DEF s
  <2> QED BY <1>2, <2>1
<1> HIDE DEF s
<1>4. t = s
  BY <1>2, <1>3, SeqEqual
<1> QED BY <1>4 DEF s

-----------------------------------------------------------------------------
\* The numbers by which rows are sorted, ascending.
SortKeys(rows, colIndex, reverseOrder) ==
    [n \in 1 .. Len(rows) |-> IF reverseOrder THEN -SortKey(rows[n], colIndex)
                              ELSE SortKey(rows[n], colIndex)]

Sortable(rows, colIndex) ==
    \A n \in 1 .. Len(rows) : SortKey(rows[n], colIndex) \in Int

LEMMA GoesBeforeIs ==
    ASSUME NEW R, NEW rows \in Seq(R), NEW colIndex, NEW reverseOrder \in BOOLEAN,
           Sortable(rows, colIndex),
           NEW m \in 1 .. Len(rows), NEW n \in 1 .. Len(rows)
    PROVE  LET key == SortKeys(rows, colIndex, reverseOrder)
           IN  /\ key \in [1 .. Len(rows) -> Int]
               /\ GoesBefore(rows[m], rows[n], colIndex, reverseOrder)
                      <=> key[m] < key[n]
<1> DEFINE key == SortKeys(rows, colIndex, reverseOrder)
           K(n_) == SortKey(rows[n_], colIndex)
<1>1. \A x \in 1 .. Len(rows) : K(x) \in Int
  BY DEF Sortable
<1>2. \A x \in 1 .. Len(rows) : key[x] = IF reverseOrder THEN -K(x) ELSE K(x)
  BY DEF SortKeys
<1>3. GoesBefore(rows[m], rows[n], colIndex, reverseOrder)
          <=> IF reverseOrder THEN K(m) > K(n) ELSE K(m) < K(n)
  BY DEF GoesBefore
<1>4. key = [x \in 1 .. Len(rows) |-> key[x]]
  BY DEF SortKeys
<1> HIDE DEF key, K
<1>5. \A x \in 1 .. Len(rows) : key[x] \in Int
  BY <1>1, <1>2
<1>6. key \in [1 .. Len(rows) -> Int]
  BY <1>4, <1>5
<1>7. GoesBefore(rows[m], rows[n], colIndex, reverseOrder) <=> key[m] < key[n]
  BY <1>1, <1>2, <1>3
<1> QED BY <1>6, <1>7 DEF key

\* Moving row i sorts one row more.
LEMMA MoveRowSorts ==
    ASSUME NEW R, NEW rows \in Seq(R), NEW colIndex, NEW reverseOrder \in BOOLEAN,
           Sortable(rows, colIndex), NEW i \in 1 .. Len(rows)
    PROVE  LET key == SortKeys(rows, colIndex, reverseOrder)
           IN  MoveRow(SortedTo(rows, key, i - 1), i, colIndex, reverseOrder)
                   = SortedTo(rows, key, i)
<1> DEFINE N == Len(rows)
           key == SortKeys(rows, colIndex, reverseOrder)
           s == SortedTo(rows, key, i - 1)
           places == {j \in 1 .. i - 1 :
                         GoesBefore(s[i], s[j], colIndex, reverseOrder)}
           q == Place(key, i, i)
           old(n) == Place(key, i - 1, n)
           new(n) == Place(key, i, n)
<1>1. N \in Nat /\ i \in 1 .. N /\ i - 1 \in 0 .. N
  OBVIOUS
<1>2. /\ key \in [1 .. N -> Int]
      /\ \A m, n \in 1 .. N : GoesBefore(rows[m], rows[n], colIndex, reverseOrder)
                                  <=> key[m] < key[n]
  BY <1>1, GoesBeforeIs
<1> HIDE DEF key
<1>3. /\ s \in Seq(R) /\ Len(s) = N
      /\ \A n \in 1 .. N : s[old(n)] = rows[n]
  BY <1>1, <1>2, SortedToIs
<1>4. /\ q \in 1 .. i /\ old(i) = i
      /\ \A n \in i + 1 .. N : new(n) = n /\ old(n) = n
      /\ \A n \in 1 .. i - 1 :
            \/ key[n] <= key[i] /\ new(n) = old(n) /\ old(n) < q
            \/ key[i] < key[n] /\ new(n) = old(n) + 1 /\ q <= old(n)
  <2>1. PlacesChange(key, N, i)
    BY <1>1, <1>2, PlaceStep
  <2> QED BY <2>1 DEF PlacesChange
<1>5. ASSUME NEW n \in 1 .. i - 1
      PROVE  old(n) \in 1 .. i - 1
  <2>1. n \in 1 .. N /\ n <= i - 1
    BY <1>1
  <2> QED BY <1>1, <1>2, <2>1, PlaceType
<1>6. \A j \in 1 .. i - 1 : \E n \in 1 .. i - 1 : old(n) = j
  BY <1>1, <1>2, PlaceExists
<1>7. s[i] = rows[i]
  BY <1>1, <1>3, <1>4
<1> HIDE DEF N, s, q, old, new
<1>8. places = q .. i - 1
  <2>1. ASSUME NEW j \in 1 .. i - 1
        PROVE  j \in places <=> q <= j
    <3>1. PICK n \in 1 .. i - 1 : old(n) = j
      BY <1>6
    <3>2. s[j] = rows[n] /\ n \in 1 .. N
      BY <1>1, <1>3, <3>1
    <3>3. j \in places <=> key[i] < key[n]
      BY <1>1, <1>2, <1>7, <3>2
    <3>4. key[i] < key[n] <=> ~(key[n] <= key[i])
      BY <1>1, <1>2, <3>2
    <3>5. /\ key[n] <= key[i] => j < q
          /\ key[i] < key[n] => q <= j
      BY <1>4, <3>1, <3>4
    <3> QED BY <3>3, <3>4, <3>5, <1>4
  <2>2. places \subseteq 1 .. i - 1
    OBVIOUS
  <2> HIDE DEF places
  <2>3. q .. i - 1 \subseteq 1 .. i - 1 /\ \A j \in 1 .. i - 1 : q <= j <=> j \in q .. i - 1
    BY <1>1, <1>4
  <2> QED BY <2>1, <2>2, <2>3
<1>9. MoveRow(s, i, colIndex, reverseOrder)
          = IF places = {} THEN s ELSE InsertAt(RemoveAt(s, i), Min(places), s[i])
  BY DEF MoveRow
<1> HIDE DEF places
<1>10. CASE q = i
  <2>1. places = {}
    BY <1>1, <1>8, <1>10
  <2>2. ASSUME NEW n \in 1 .. N
        PROVE  new(n) = old(n)
    <3>1. CASE n < i
      BY <1>1, <1>4, <1>5, <1>10, <3>1
    <3>2. CASE n = i
      BY <1>4, <1>10, <3>2 DEF q, new
    <3>3. CASE n > i
      BY <1>1, <1>4, <3>3
    <3> QED BY <1>1, <3>1, <3>2, <3>3
  <2>3. \A n \in 1 .. N : s[new(n)] = rows[n]
    BY <1>3, <2>2
  <2>4. s = SortedTo(rows, key, i)
    <3>1. /\ key \in [1 .. Len(rows) -> Int] /\ i \in 0 .. Len(rows)
          /\ s \in Seq(R) /\ Len(s) = Len(rows)
          /\ \A n \in 1 .. Len(rows) : s[Place(key, i, n)] = rows[n]
      BY <1>1, <1>2, <1>3, <2>3 DEF N, new
    <3> QED BY <3>1, SortedIfPlaced
  <2> QED BY <1>9, <2>1, <2>4 DEF s, key
<1>11. CASE q < i
  <2> DEFINE t == InsertAt(RemoveAt(s, i), q, s[i])
  <2>1. Min(places) = q /\ places # {}
    <3>1. q \in places /\ \A x \in places : q <= x /\ x \in Int
      BY <1>1, <1>4, <1>8, <1>11
    <3>2. \A y \in places : (\A x \in places : y <= x) => y = q
      BY <3>1
    <3> QED BY <3>1, <3>2 DEF Min
  <2>2. t \in Seq(R) /\ Moved(t, s, i, q)
    BY <1>1, <1>3, <1>4, MovedIs
  <2>3. MoveRow(s, i, colIndex, reverseOrder) = t
    BY <1>9, <2>1
  <2> HIDE DEF t
  <2>4. /\ Len(t) = N
        /\ \A n \in 1 .. N : t[n] = IF n < q THEN s[n] ELSE IF n = q THEN s[i]
                                    ELSE IF n <= i THEN s[n - 1] ELSE s[n]
    BY <1>3, <2>2 DEF Moved
  <2>5. ASSUME NEW n \in 1 .. N
        PROVE  t[new(n)] = rows[n]
    <3>1. CASE n < i
      <4>1. n \in 1 .. i - 1
        BY <1>1, <3>1
      <4>2. old(n) \in 1 .. i - 1 /\ s[old(n)] = rows[n]
        BY <1>3, <1>5, <4>1
      <4>3. CASE new(n) = old(n) /\ old(n) < q
        BY <1>1, <1>4, <2>4, <4>2, <4>3
      <4>4. CASE new(n) = old(n) + 1 /\ q <= old(n)
        <5>1. new(n) \in 1 .. N /\ new(n) > q /\ new(n) <= i /\ new(n) - 1 = old(n)
          BY <1>1, <1>4, <4>2, <4>4
        <5>2. t[new(n)] = s[new(n) - 1]
          BY <1>1, <1>4, <2>4, <5>1
        <5> QED BY <4>2, <5>1, <5>2
      <4> QED BY <1>4, <4>1, <4>3, <4>4
    <3>2. CASE n = i
      <4>1. new(n) = q
        BY <3>2 DEF q, new
      <4>2. q \in 1 .. N
        BY <1>1, <1>4
      <4>3. t[q] = s[i]
        BY <1>1, <1>4, <2>4, <4>2
      <4> QED BY <1>7, <3>2, <4>1, <4>3
    <3>3. CASE n > i
      <4>1. new(n) = n /\ old(n) = n /\ s[n] = rows[n]
        BY <1>1, <1>3, <1>4, <3>3
      <4>2. t[n] = s[n]
        BY <1>1, <1>4, <2>4, <3>3
      <4> QED BY <4>1, <4>2
    <3> QED BY <1>1, <3>1, <3>2, <3>3
  <2>6. t = SortedTo(rows, key, i)
    <3>1. /\ key \in [1 .. Len(rows) -> Int] /\ i \in 0 .. Len(rows)
          /\ t \in Seq(R) /\ Len(t) = Len(rows)
          /\ \A n \in 1 .. Len(rows) : t[Place(key, i, n)] = rows[n]
      BY <1>1, <1>2, <2>2, <2>4, <2>5 DEF N, new
    <3> QED BY <3>1, SortedIfPlaced
  <2> QED BY <2>3, <2>6 DEF s, key
<1> QED BY <1>1, <1>4, <1>10, <1>11

\* sort leaves each row at its place.
LEMMA SortRowsIs ==
    ASSUME NEW R, NEW rows \in Seq(R), NEW colIndex, NEW reverseOrder \in BOOLEAN,
           Sortable(rows, colIndex)
    PROVE  SortRows(rows, colIndex, reverseOrder)
               = SortedTo(rows, SortKeys(rows, colIndex, reverseOrder), Len(rows))
<1> DEFINE N == Len(rows)
           key == SortKeys(rows, colIndex, reverseOrder)
           to(i) == SortedTo(rows, key, i)
           move(s, i) == MoveRow(s, i, colIndex, reverseOrder)
           Solves(f) == f = [i \in 0 .. N |-> IF i = 0 THEN rows
                                              ELSE move(f[i - 1], i)]
<1>1. N \in Nat
  OBVIOUS
<1>2. \A i \in 1 .. N : move(to(i - 1), i) = to(i)
  BY MoveRowSorts
<1>3. to(0) = rows
  <2>1. key \in [1 .. N -> Int]
    BY DEF SortKeys, Sortable
  <2>2. \A n \in 1 .. N : Place(key, 0, n) = n
    BY DEF Place
  <2> HIDE DEF key
  <2>3. \A n \in 1 .. N : rows[Place(key, 0, n)] = rows[n]
    BY <2>2
  <2> QED BY <1>1, <2>1, <2>3, SortedIfPlaced
<1>4. SortRows(rows, colIndex, reverseOrder) = (CHOOSE f : Solves(f))[N]
  BY DEF SortRows
<1> HIDE DEF N, key, to, move
<1>5. Solves([i \in 0 .. N |-> to(i)])
  <2> DEFINE f == [i \in 0 .. N |-> to(i)]
  <2>1. ASSUME NEW i \in 0 .. N
        PROVE  f[i] = IF i = 0 THEN rows ELSE move(f[i - 1], i)
    <3>1. CASE i = 0
      BY <1>1, <1>3, <3>1
    <3>2. CASE i # 0
      <4>1. i \in 1 .. N /\ i - 1 \in 0 .. N
        BY <1>1, <3>2
      <4>2. f[i - 1] = to(i - 1) /\ f[i] = to(i)
        BY <4>1
      <4> QED BY <1>2, <3>2, <4>1, <4>2
    <3> QED BY <3>1, <3>2
  <2> QED BY <2>1
<1>6. ASSUME NEW f, Solves(f)
      PROVE  f[N] = to(N)
  <2>1. \A i \in 0 .. N : f[i] = IF i = 0 THEN rows ELSE move(f[i - 1], i)
    BY <1>6
  <2> DEFINE Wrong == {i \in 0 .. N : f[i] # to(i)}
  <2> SUFFICES ASSUME Wrong # {}
               PROVE  FALSE
    BY <1>1
  <2>2. PICK i \in Wrong : \A j \in Wrong : i <= j
    <3>1. Wrong \in SUBSET Nat
      OBVIOUS
    <3> HIDE DEF Wrong
    <3> QED BY <3>1, LeastExists
  <2>3. i \in 0 .. N /\ f[i] # to(i)
    OBVIOUS
  <2>4. i # 0
    BY <1>1, <1>3, <2>1, <2>3
  <2>5. i \in 1 .. N /\ i - 1 \in 0 .. N /\ ~(i <= i - 1)
    BY <1>1, <2>3, <2>4
  <2>6. f[i - 1] = to(i - 1)
    BY <2>2, <2>5
  <2> QED BY <1>2, <2>1, <2>3, <2>4, <2>5, <2>6
<1> DEFINE sorted == CHOOSE f : Solves(f)
<1>7. Solves(sorted)
  <2> HIDE DEF Solves
  <2> QED BY <1>5
<1> HIDE DEF Solves
<1>8. sorted[N] = to(N)
  BY <1>6, <1>7
<1> QED BY <1>4, <1>8 DEF to, key, N

\* What sort does to the rows: each is where those that go before it, and those
\* of its equals that did, leave it.
LEMMA SortedRows ==
    ASSUME NEW R, NEW rows \in Seq(R), NEW colIndex, NEW reverseOrder \in BOOLEAN,
           Sortable(rows, colIndex)
    PROVE  LET sorted == SortRows(rows, colIndex, reverseOrder)
               key == SortKeys(rows, colIndex, reverseOrder)
           IN  /\ sorted \in Seq(R) /\ Len(sorted) = Len(rows)
               /\ \A n \in 1 .. Len(rows) :
                     /\ Place(key, Len(rows), n) \in 1 .. Len(rows)
                     /\ sorted[Place(key, Len(rows), n)] = rows[n]
               /\ \A p \in 1 .. Len(rows) :
                     \E n \in 1 .. Len(rows) : Place(key, Len(rows), n) = p
<1> DEFINE key == SortKeys(rows, colIndex, reverseOrder)
<1>1. key \in [1 .. Len(rows) -> Int]
  BY DEF SortKeys, Sortable
<1> HIDE DEF key
<1>2. Len(rows) \in Nat
  OBVIOUS
<1>3. SortRows(rows, colIndex, reverseOrder) = SortedTo(rows, key, Len(rows))
  BY SortRowsIs DEF key
<1>4. /\ SortedTo(rows, key, Len(rows)) \in Seq(R)
      /\ Len(SortedTo(rows, key, Len(rows))) = Len(rows)
      /\ \A n \in 1 .. Len(rows) :
            SortedTo(rows, key, Len(rows))[Place(key, Len(rows), n)] = rows[n]
  BY <1>1, <1>2, SortedToIs
<1>5. \A n \in 1 .. Len(rows) : Place(key, Len(rows), n) \in 1 .. Len(rows)
  <2>1. Len(rows) \in 0 .. Len(rows)
    BY <1>2
  <2> QED BY <1>1, <1>2, <2>1, PlaceType
<1>6. \A p \in 1 .. Len(rows) :
          \E n \in 1 .. Len(rows) : Place(key, Len(rows), n) = p
  BY <1>1, <1>2, PlaceExists
<1> QED BY <1>3, <1>4, <1>5, <1>6 DEF key

\* Afterwards no row goes before the one above it.
LEMMA SortedInOrder ==
    ASSUME NEW R, NEW rows \in Seq(R), NEW colIndex, NEW reverseOrder \in BOOLEAN,
           Sortable(rows, colIndex),
           NEW p \in 2 .. Len(rows)
    PROVE  LET sorted == SortRows(rows, colIndex, reverseOrder)
           IN  ~GoesBefore(sorted[p], sorted[p - 1], colIndex, reverseOrder)
<1> DEFINE sorted == SortRows(rows, colIndex, reverseOrder)
           key == SortKeys(rows, colIndex, reverseOrder)
           place(n) == Place(key, Len(rows), n)
<1>1. /\ \A n \in 1 .. Len(rows) : sorted[place(n)] = rows[n]
      /\ \A q \in 1 .. Len(rows) : \E n \in 1 .. Len(rows) : place(n) = q
  <2>1. /\ sorted \in Seq(R) /\ Len(sorted) = Len(rows)
        /\ \A n \in 1 .. Len(rows) :
              /\ Place(key, Len(rows), n) \in 1 .. Len(rows)
              /\ sorted[Place(key, Len(rows), n)] = rows[n]
        /\ \A q \in 1 .. Len(rows) :
              \E n \in 1 .. Len(rows) : Place(key, Len(rows), n) = q
    BY SortedRows
  <2> HIDE DEF sorted, key
  <2> QED BY <2>1
<1>2. /\ key \in [1 .. Len(rows) -> Int]
      /\ \A m, n \in 1 .. Len(rows) :
            GoesBefore(rows[m], rows[n], colIndex, reverseOrder)
                <=> key[m] < key[n]
  <2>1. 1 \in 1 .. Len(rows)
    OBVIOUS
  <2> QED BY <2>1, GoesBeforeIs
<1>3. Len(rows) \in Nat /\ p \in 1 .. Len(rows) /\ p - 1 \in 1 .. Len(rows)
  OBVIOUS
<1> HIDE DEF sorted, key
<1>4. \A m, n \in 1 .. Len(rows) : Precedes(key, m, n) => place(m) < place(n)
  BY <1>2, <1>3, PlacesInOrder
<1> HIDE DEF place
<1>5. PICK m \in 1 .. Len(rows) : place(m) = p - 1
  BY <1>1, <1>3
<1>6. PICK n \in 1 .. Len(rows) : place(n) = p
  BY <1>1, <1>3
<1>7. sorted[p - 1] = rows[m] /\ sorted[p] = rows[n]
  BY <1>1, <1>5, <1>6
<1>8. ~(key[n] < key[m])
  <2>1. Precedes(key, n, m) => p < p - 1
    BY <1>4, <1>5, <1>6
  <2> QED BY <1>3, <2>1 DEF Precedes
<1> QED BY <1>2, <1>7, <1>8 DEF sorted

-----------------------------------------------------------------------------
(* Sums                                                                    *)

\* A set of finite sets has a smallest one.
LEMMA SmallestExists ==
    ASSUME NEW S, IsFiniteSet(S), NEW W \in SUBSET (SUBSET S), W # {}
    PROVE  \E s \in W : \A a \in s : s \ {a} \notin W
<1>1. \A s \in W : IsFiniteSet(s) /\ Cardinality(s) \in Nat
  BY FS_Subset, FS_CardinalityType
<1> DEFINE sizes == {Cardinality(s) : s \in W}
<1>2. sizes \in SUBSET Nat /\ sizes # {}
  BY <1>1
<1>3. PICK n \in sizes : \A m \in sizes : n <= m
  <2> HIDE DEF sizes
  <2> QED BY <1>2, LeastExists
<1>4. PICK s \in W : Cardinality(s) = n
  BY <1>3
<1>5. ASSUME NEW a \in s, s \ {a} \in W
      PROVE  FALSE
  <2>1. Cardinality(s \ {a}) = Cardinality(s) - 1
    BY <1>1, <1>4, FS_RemoveElement
  <2>2. n <= Cardinality(s \ {a})
    BY <1>3, <1>5
  <2> QED BY <1>1, <1>4, <2>1, <2>2
<1> QED BY <1>4, <1>5

\* sum[s] is the sum of the numbers g of the elements of s, as MapThenSumSet
\* adds them up.
Chosen(s) == CHOOSE x \in s : TRUE

AddsUp(sum, g, S) ==
    sum = [s \in SUBSET S |-> IF s = {} THEN 0
                              ELSE g[Chosen(s)] + sum[s \ {Chosen(s)}]]

LEMMA ChosenType ==
    ASSUME NEW S, NEW s \in SUBSET S, s # {}
    PROVE  Chosen(s) \in s /\ Chosen(s) \in S /\ s \ {Chosen(s)} \in SUBSET S
  BY DEF Chosen

\* The sums of the sets with at most n elements.
LEMMA SumExists ==
    ASSUME NEW S, IsFiniteSet(S), NEW g \in [S -> Int]
    PROVE  \E sum : AddsUp(sum, g, S)
<1> DEFINE Upto(n) == {s \in SUBSET S : Cardinality(s) <= n}
           Next1(sum, s) == IF s = {} THEN 0
                            ELSE g[Chosen(s)] + sum[s \ {Chosen(s)}]
           Good(n) == \E sum : /\ DOMAIN sum = Upto(n)
                               /\ \A s \in Upto(n) : sum[s] = Next1(sum, s)
           Bad == {n \in Nat : ~Good(n)}
<1>1. \A s \in SUBSET S : IsFiniteSet(s) /\ Cardinality(s) \in Nat
                          /\ Cardinality(s) <= Cardinality(S)
  BY FS_Subset, FS_CardinalityType
<1>2. \A s \in SUBSET S : s # {} =>
          /\ s \ {Chosen(s)} \in SUBSET S
          /\ Cardinality(s \ {Chosen(s)}) = Cardinality(s) - 1
          /\ Cardinality(s) # 0
  <2> SUFFICES ASSUME NEW s \in SUBSET S, s # {}
               PROVE  /\ s \ {Chosen(s)} \in SUBSET S
                      /\ Cardinality(s \ {Chosen(s)}) = Cardinality(s) - 1
                      /\ Cardinality(s) # 0
    OBVIOUS
  <2>1. Chosen(s) \in s /\ s \ {Chosen(s)} \in SUBSET S
    BY ChosenType
  <2> QED BY <1>1, <2>1, FS_RemoveElement, FS_EmptySet
<1>3. Good(0)
  <2> DEFINE sum == [s \in Upto(0) |-> 0]
  <2>1. \A s \in Upto(0) : s = {}
    BY <1>1, FS_EmptySet
  <2>2. DOMAIN sum = Upto(0) /\ \A s \in Upto(0) : sum[s] = Next1(sum, s)
    BY <2>1
  <2> QED BY <2>2
<1>4. ASSUME NEW n \in Nat, Good(n)
      PROVE  Good(n + 1)
  <2>1. PICK old : DOMAIN old = Upto(n) /\ \A s \in Upto(n) : old[s] = Next1(old, s)
    BY <1>4
  <2> DEFINE sum == [s \in Upto(n + 1) |-> Next1(old, s)]
  <2>2. ASSUME NEW s \in Upto(n + 1)
        PROVE  sum[s] = Next1(sum, s)
    <3>1. CASE s = {}
      BY <3>1
    <3>2. CASE s # {}
      <4> DEFINE r == s \ {Chosen(s)}
      <4>1. r \in Upto(n) /\ r \in Upto(n + 1)
        BY <1>1, <1>2, <3>2
      <4>2. old[r] = Next1(old, r)
        BY <2>1, <4>1
      <4>3. sum[r] = old[r]
        BY <4>1, <4>2
      <4> QED BY <3>2, <4>3
    <3> QED BY <3>1, <3>2
  <2>3. DOMAIN sum = Upto(n + 1)
    OBVIOUS
  <2> HIDE DEF sum
  <2> QED BY <2>2, <2>3
<1>5. Bad = {}
  <2> SUFFICES ASSUME Bad # {} PROVE FALSE
    OBVIOUS
  <2>1. Bad \in SUBSET Nat
    OBVIOUS
  <2>2. PICK n \in Bad : \A m \in Bad : n <= m
    <3> HIDE DEF Bad
    <3> QED BY <2>1, LeastExists
  <2>3. n \in Nat /\ ~Good(n)
    OBVIOUS
  <2> HIDE DEF Good
  <2>4. n # 0
    BY <1>3, <2>3
  <2>5. n - 1 \in Nat /\ (n - 1) + 1 = n /\ ~(n <= n - 1)
    BY <2>3, <2>4
  <2>6. Good(n - 1)
    BY <2>2, <2>5
  <2> QED BY <1>4, <2>3, <2>5, <2>6
<1>6. Cardinality(S) \in Nat /\ Upto(Cardinality(S)) = SUBSET S
  BY <1>1
<1>7. Good(Cardinality(S))
  BY <1>5, <1>6
<1>8. PICK sum : DOMAIN sum = SUBSET S /\ \A s \in SUBSET S : sum[s] = Next1(sum, s)
  BY <1>6, <1>7
<1> DEFINE total == [s \in SUBSET S |-> sum[s]]
<1>9. ASSUME NEW s \in SUBSET S
      PROVE  total[s] = Next1(total, s)
  <2>1. CASE s = {}
    BY <1>8, <2>1
  <2>2. CASE s # {}
    <3>1. total[s \ {Chosen(s)}] = sum[s \ {Chosen(s)}]
      BY <1>2, <2>2
    <3> QED BY <1>8, <2>2, <3>1
  <2> QED BY <2>1, <2>2
<1>10. total = [s \in SUBSET S |-> Next1(total, s)]
  BY <1>9
<1> QED BY <1>10 DEF AddsUp

\* The order in which they are added does not matter.
IsSum(sum, g, S) ==
    /\ sum[{}] = 0
    /\ \A s \in SUBSET S : sum[s] \in Int
    /\ \A s \in SUBSET S : \A a \in s : sum[s] = g[a] + sum[s \ {a}]

LEMMA SumIs ==
    ASSUME NEW S, IsFiniteSet(S), NEW g \in [S -> Int], NEW sum, AddsUp(sum, g, S)
    PROVE  IsSum(sum, g, S)
<1>1. \A s \in SUBSET S : sum[s] = IF s = {} THEN 0
                                   ELSE g[Chosen(s)] + sum[s \ {Chosen(s)}]
  BY DEF AddsUp
<1>2. sum[{}] = 0
  BY <1>1
<1>3. \A s \in SUBSET S : sum[s] \in Int
  <2> DEFINE W == {s \in SUBSET S : sum[s] \notin Int}
  <2> SUFFICES ASSUME W # {} PROVE FALSE
    OBVIOUS
  <2>1. PICK s \in W : \A a \in s : s \ {a} \notin W
    <3>1. W \in SUBSET (SUBSET S)
      OBVIOUS
    <3> HIDE DEF W
    <3> QED BY <3>1, SmallestExists
  <2>2. s # {}
    BY <1>2
  <2>3. Chosen(s) \in s /\ Chosen(s) \in S /\ s \ {Chosen(s)} \in SUBSET S
    BY <2>2, ChosenType
  <2>4. sum[s \ {Chosen(s)}] \in Int
    BY <2>1, <2>3
  <2>5. sum[s] = g[Chosen(s)] + sum[s \ {Chosen(s)}]
    BY <1>1, <2>2
  <2>6. g[Chosen(s)] \in Int
    BY <2>3
  <2> QED BY <2>1, <2>4, <2>5, <2>6
<1>4. \A s \in SUBSET S : \A a \in s : sum[s] = g[a] + sum[s \ {a}]
  <2> DEFINE W == {s \in SUBSET S : \E a \in s : sum[s] # g[a] + sum[s \ {a}]}
  <2> SUFFICES ASSUME W # {} PROVE FALSE
    OBVIOUS
  <2>1. PICK s \in W : \A a \in s : s \ {a} \notin W
    <3>1. W \in SUBSET (SUBSET S)
      OBVIOUS
    <3> HIDE DEF W
    <3> QED BY <3>1, SmallestExists
  <2>2. PICK a \in s : sum[s] # g[a] + sum[s \ {a}]
    OBVIOUS
  <2> DEFINE p == Chosen(s)
             without == s \ {p}
             rest == without \ {a}
  <2>3. p \in s /\ without \in SUBSET S /\ sum[s] = g[p] + sum[without]
    BY <1>1, ChosenType
  <2>4. p # a
    BY <2>2, <2>3
  <2>5. sum[without] = g[a] + sum[rest]
    <3>1. without \notin W /\ a \in without
      BY <2>1, <2>3, <2>4
    <3> QED BY <2>3, <3>1
  <2>6. sum[s \ {a}] = g[p] + sum[rest]
    <3>1. s \ {a} \notin W /\ s \ {a} \in SUBSET S /\ p \in s \ {a}
      BY <2>1, <2>3, <2>4
    <3>2. (s \ {a}) \ {p} = rest
      OBVIOUS
    <3>3. sum[s \ {a}] = g[p] + sum[(s \ {a}) \ {p}]
      BY <3>1
    <3> QED BY <3>2, <3>3
  <2>7. g[a] \in Int /\ g[p] \in Int /\ sum[rest] \in Int
    BY <1>3, <2>3
  <2> HIDE DEF p, without, rest
  <2> QED BY <2>2, <2>3, <2>5, <2>6, <2>7
<1> QED BY <1>2, <1>3, <1>4 DEF IsSum

\* Sums of natural numbers.
LEMMA SumOfNaturals ==
    ASSUME NEW S, IsFiniteSet(S), NEW g \in [S -> Nat], NEW sum, AddsUp(sum, g, S)
    PROVE  \A s \in SUBSET S : /\ sum[s] \in Nat
                                /\ \A a \in s : g[a] <= sum[s]
<1>1. g \in [S -> Int]
  OBVIOUS
<1>2. /\ sum[{}] = 0
      /\ \A s \in SUBSET S : sum[s] \in Int
      /\ \A s \in SUBSET S : \A a \in s : sum[s] = g[a] + sum[s \ {a}]
  <2>1. IsSum(sum, g, S)
    BY <1>1, SumIs
  <2> QED BY <2>1 DEF IsSum
<1>3. \A s \in SUBSET S : sum[s] \in Nat
  <2> DEFINE W == {s \in SUBSET S : sum[s] \notin Nat}
  <2> SUFFICES ASSUME W # {} PROVE FALSE
    OBVIOUS
  <2>1. PICK s \in W : \A a \in s : s \ {a} \notin W
    <3>1. W \in SUBSET (SUBSET S)
      OBVIOUS
    <3> HIDE DEF W
    <3> QED BY <3>1, SmallestExists
  <2>2. s \in SUBSET S /\ sum[s] \notin Nat
    OBVIOUS
  <2>3. PICK a \in s : TRUE
    <3>1. sum[{}] \in Nat
      BY <1>2
    <3>2. s # {}
      BY <2>2, <3>1
    <3> QED BY <3>2
  <2>4. sum[s \ {a}] \in Nat /\ g[a] \in Nat
    BY <2>1, <2>2, <2>3
  <2>5. sum[s] = g[a] + sum[s \ {a}]
    BY <1>2, <2>2, <2>3
  <2> HIDE DEF W
  <2> QED BY <2>2, <2>4, <2>5
<1>4. ASSUME NEW s \in SUBSET S, NEW a \in s
      PROVE  g[a] <= sum[s]
  <2>1. sum[s \ {a}] \in Nat /\ g[a] \in Nat /\ sum[s] = g[a] + sum[s \ {a}]
    BY <1>2, <1>3
  <2> QED BY <2>1
<1> QED BY <1>3, <1>4

LEMMA SumOfIs ==
    ASSUME NEW p, IsFiniteSet(DOMAIN p), NEW field,
           \A a \in DOMAIN p : p[a][field] \in Int
    PROVE  \E sum : /\ AddsUp(sum, [a \in DOMAIN p |-> p[a][field]], DOMAIN p)
                    /\ SumOf(p, field) = sum[DOMAIN p]
<1> DEFINE S == DOMAIN p
           g == [a \in S |-> p[a][field]]
           Solves(f) == f = [s \in SUBSET S |->
                                IF s = {} THEN 0
                                ELSE p[Chosen(s)][field] + f[s \ {Chosen(s)}]]
<1>1. SumOf(p, field) = (CHOOSE f : Solves(f))[S]
  BY DEF SumOf, MapThenSumSet, MapThenFoldSet, Chosen
<1>2. \A s \in SUBSET S : s # {} => g[Chosen(s)] = p[Chosen(s)][field]
  BY ChosenType
<1>3. \A f : [s \in SUBSET S |-> IF s = {} THEN 0
                                ELSE p[Chosen(s)][field] + f[s \ {Chosen(s)}]]
                 = [s \in SUBSET S |-> IF s = {} THEN 0
                                       ELSE g[Chosen(s)] + f[s \ {Chosen(s)}]]
  BY <1>2
<1>4. \A f : Solves(f) <=> AddsUp(f, g, S)
  <2> HIDE DEF g
  <2> QED BY <1>3 DEF AddsUp
<1>5. \E f : AddsUp(f, g, S)
  <2>1. g \in [S -> Int]
    OBVIOUS
  <2> HIDE DEF g
  <2> QED BY <2>1, SumExists
<1> HIDE DEF Solves, g
<1>6. Solves(CHOOSE f : Solves(f))
  BY <1>4, <1>5
<1> QED BY <1>1, <1>4, <1>6 DEF g

-----------------------------------------------------------------------------
(* The rows of a table                                                     *)

\* A finite set of addresses can be listed in ascending order.
LEMMA AscendingExists ==
    ASSUME NEW D \in SUBSET Nat, IsFiniteSet(D)
    PROVE  \E s \in SetToSeqs(D) : \A m, n \in DOMAIN s : m < n => s[m] < s[n]
<1> DEFINE N == Cardinality(D)
<1>1. N \in Nat /\ ExistsBijection(1 .. N, D)
  BY FS_CardinalityType
<1> HIDE DEF N
<1>2. PICK f \in [1 .. N -> D] : \A m, n \in 1 .. N : f[m] = f[n] => m = n
  BY <1>1 DEF ExistsBijection, Bijection, Injection, IsInjective
<1>3. f \in Seq(D) /\ Len(f) = N /\ f \in [1 .. N -> Int]
  <2>1. f \in Seq(D) /\ Len(f) = N
    BY <1>1
  <2>2. \A n \in 1 .. N : f[n] \in Int
    <3>1. D \subseteq Int
      OBVIOUS
    <3>2. \A n \in 1 .. N : f[n] \in D
      OBVIOUS
    <3> QED BY <3>1, <3>2
  <2>3. f \in [1 .. N -> Int]
    BY <2>2
  <2> QED BY <2>1, <2>3
<1> DEFINE s == SortedTo(f, f, N)
           place(n) == Place(f, N, n)
<1>4. N \in 0 .. Len(f) /\ f \in [1 .. Len(f) -> Int]
  BY <1>1, <1>3
<1>5. /\ s \in Seq(D) /\ Len(s) = N
      /\ \A n \in 1 .. N : s[place(n)] = f[n]
  BY <1>3, <1>4, SortedToIs
<1>6. \A p \in 1 .. N : \E n \in 1 .. N : place(n) = p
  BY <1>1, <1>3, <1>4, PlaceExists
<1>7. \A m, n \in 1 .. N : Precedes(f, m, n) => place(m) < place(n)
  BY <1>1, <1>3, <1>4, PlacesInOrder
<1> HIDE DEF s, place
<1>8. ASSUME NEW p \in 1 .. N, NEW q \in 1 .. N, p < q
      PROVE  s[p] < s[q]
  <2>1. PICK m \in 1 .. N : place(m) = p
    BY <1>6
  <2>2. PICK n \in 1 .. N : place(n) = q
    BY <1>6
  <2>3. s[p] = f[m] /\ s[q] = f[n] /\ m # n
    BY <1>5, <1>8, <2>1, <2>2
  <2>4. ~(f[n] < f[m])
    <3>1. Precedes(f, n, m) => q < p
      BY <1>7, <2>1, <2>2
    <3> QED BY <1>8, <3>1 DEF Precedes
  <2>5. f[m] # f[n] /\ f[m] \in Int /\ f[n] \in Int
    BY <1>2, <1>3, <2>3
  <2> QED BY <2>3, <2>4, <2>5
<1>9. s \in [1 .. N -> D] /\ DOMAIN s = 1 .. N
  BY <1>1, <1>5
<1>10. \A p, q \in 1 .. N : p # q => s[p] # s[q]
  <2> SUFFICES ASSUME NEW p \in 1 .. N, NEW q \in 1 .. N, p # q
               PROVE  s[p] # s[q]
    OBVIOUS
  <2>1. s[p] \in Nat /\ s[q] \in Nat
    BY <1>9
  <2>2. p < q \/ q < p
    BY <1>1
  <2> QED BY <1>8, <2>1, <2>2
<1>11. s \in SetToSeqs(D)
  BY <1>9, <1>10 DEF SetToSeqs, N
<1> QED BY <1>8, <1>9, <1>11

\* The statistics of every function once.
LEMMA StatisticsAre ==
    ASSUME NEW p, NEW recursing, IsProfile(p, recursing)
    PROVE  \E addresses \in Bijection(1 .. Cardinality(DOMAIN p), DOMAIN p) :
               GetStatistics(p) = [n \in 1 .. Cardinality(DOMAIN p) |->
                                      p[addresses[n]]]
<1> DEFINE D == DOMAIN p
           N == Cardinality(D)
           s == CHOOSE s \in SetToSeqs(D) :
                    \A m, n \in DOMAIN s : m < n => s[m] < s[n]
<1>1. D \in SUBSET Nat /\ IsFiniteSet(D)
  BY DEF IsProfile
<1>2. s \in SetToSeqs(D)
  BY <1>1, AscendingExists
<1>3. GetStatistics(p) = [n \in DOMAIN s |-> p[s[n]]]
  BY DEF GetStatistics
<1> HIDE DEF s
<1>4. s \in [1 .. N -> D] /\ \A i, j \in 1 .. N : i # j => s[i] # s[j]
  BY <1>2 DEF SetToSeqs
<1>5. s \in Injection(1 .. N, D)
  BY <1>4 DEF Injection, IsInjective
<1>6. N \in Nat /\ IsFiniteSet(1 .. N) /\ Cardinality(1 .. N) = N
  BY <1>1, FS_CardinalityType, FS_Interval
<1>7. s \in Surjection(1 .. N, D)
  BY <1>1, <1>5, <1>6, FS_Injection
<1>8. s \in Bijection(1 .. N, D)
  BY <1>5, <1>7 DEF Bijection
<1>9. DOMAIN s = 1 .. N
  BY <1>4
<1> QED BY <1>3, <1>8, <1>9

LEMMA TimesAre ==
    ASSUME NEW p, NEW recursing, IsProfile(p, recursing),
           NEW field \in {"self", "total"}
    PROVE  /\ [a \in DOMAIN p |-> p[a][field]] \in [DOMAIN p -> Nat]
           /\ AllTimes(p, field) \in Nat
           /\ \E sum : /\ AddsUp(sum, [a \in DOMAIN p |-> p[a][field]], DOMAIN p)
                       /\ AllTimes(p, field) = sum[DOMAIN p]
<1> DEFINE g == [a \in DOMAIN p |-> p[a][field]]
<1>1. \A a \in DOMAIN p : p[a][field] \in Nat
  BY DEF IsProfile, FunctionStatistics
<1>2. g \in [DOMAIN p -> Nat]
  BY <1>1
<1>3. IsFiniteSet(DOMAIN p)
  BY DEF IsProfile
<1>4. PICK sum : AddsUp(sum, g, DOMAIN p) /\ SumOf(p, field) = sum[DOMAIN p]
  BY <1>1, <1>3, SumOfIs
<1> HIDE DEF g
<1>5. sum[DOMAIN p] \in Nat
  BY <1>2, <1>3, <1>4, SumOfNaturals
<1> QED BY <1>2, <1>4, <1>5 DEF AllTimes, g

\* A number with decimals.
LEMMA RoundedIs ==
    ASSUME NEW a \in Nat, NEW b \in Nat \ {0}, NEW scale \in Nat \ {0}
    PROVE  /\ Rounded(a, b, scale).value = (2 * a * scale + b) \div (2 * b)
           /\ Rounded(a, b, scale).value \in Int
           /\ Rounded(a, b, scale).scale = scale
<1>1. Rounded(a, b, scale) = [value |-> (2 * a * scale + b) \div (2 * b),
                              scale |-> scale]
  BY DEF Rounded
<1>2. 2 * a * scale + b \in Int /\ 2 * b \in Nat /\ 2 * b > 0
  OBVIOUS
<1>3. \A x \in Int, y \in Nat : y > 0 => x \div y \in Int
  OBVIOUS
<1>4. (2 * a * scale + b) \div (2 * b) \in Int
  BY <1>2, <1>3
<1> QED BY <1>1, <1>4

\* A click can sort by every column of every table.
LEMMA RowsAreSortable ==
    ASSUME NEW p, NEW recursing, IsProfile(p, recursing), NEW a \in DOMAIN p,
           NEW colIndex \in 0 .. 10
    PROVE  SortKey(TableRow(p, p[a]), colIndex) \in Int
<1> DEFINE fn == p[a]
           row == TableRow(p, fn)
           cell == row[colIndex + 1]
<1>1. fn \in FunctionStatistics
  BY DEF IsProfile
<1>2. AllTimes(p, "self") \in Nat /\ AllTimes(p, "total") \in Nat
  BY TimesAre
<1>3. CASE colIndex = 0
  <2>1. cell = fn.type
    BY <1>3 DEF TableRow
  <2>2. \E n \in 1 .. 3 : TypeOrder[n] = cell
    BY <1>1, <2>1 DEF FunctionStatistics, TypeOrder
  <2>3. (CHOOSE n \in 1 .. 3 : TypeOrder[n] = cell) \in 1 .. 3
    BY <2>2
  <2> HIDE DEF cell
  <2>4. SortKey(row, colIndex) = CHOOSE n \in 1 .. 3 : TypeOrder[n] = cell
    BY <1>3 DEF SortKey, cell
  <2>5. SortKey(row, colIndex) \in 1 .. 3
    BY <2>3, <2>4, Zenon
  <2> QED BY <2>5
<1>4. CASE colIndex \in 1 .. 2
  <2>1. cell \in {fn.name, fn.calls}
    BY <1>4 DEF TableRow
  <2>2. SortKey(row, colIndex) = cell
    BY <1>4 DEF SortKey
  <2> QED BY <1>1, <2>1, <2>2 DEF FunctionStatistics
<1>5. CASE colIndex \in 3 .. 10
  <2>1. \E x \in Nat, y \in Nat, z \in Nat \ {0} : cell = Rounded(x, y, z)
    <3>1. /\ fn.self \in Nat /\ fn.total \in Nat /\ fn.calls \in Nat
          /\ fn.worst_self \in Nat /\ fn.worst_total \in Nat
      BY <1>1 DEF FunctionStatistics
    <3>2. fn.self * 100 \in Nat /\ fn.total * 100 \in Nat
      BY <3>1
    <3>3. \/ cell = Rounded(fn.self * 100, AllTimes(p, "self"), 100)
          \/ cell = Rounded(fn.self, 1000, 10)
          \/ cell = Rounded(fn.self, fn.calls, 10)
          \/ cell = Rounded(fn.worst_self, 1, 10)
          \/ cell = Rounded(fn.total * 100, AllTimes(p, "total"), 100)
          \/ cell = Rounded(fn.total, 1000, 10)
          \/ cell = Rounded(fn.total, fn.calls, 10)
          \/ cell = Rounded(fn.worst_total, 1, 10)
      BY <1>5 DEF TableRow
    <3>4. 10 \in Nat \ {0} /\ 100 \in Nat \ {0} /\ 1000 \in Nat /\ 1 \in Nat
      OBVIOUS
    <3> HIDE DEF cell, fn
    <3> QED BY <1>2, <3>1, <3>2, <3>3, <3>4
  <2> HIDE DEF cell
  <2>2. cell # NaN => cell.value \in Int /\ cell.scale \in Nat \ {0}
    <3>1. PICK x \in Nat, y \in Nat, z \in Nat \ {0} : cell = Rounded(x, y, z)
      BY <2>1
    <3>2. y = 0 => cell = NaN
      BY <3>1 DEF Rounded
    <3>3. y # 0 => cell.value \in Int /\ cell.scale = z
      BY <3>1, RoundedIs
    <3> QED BY <3>2, <3>3
  <2>3. cell # NaN => cell.value \div cell.scale \in Int
    BY <2>2
  <2>4. SortKey(row, colIndex) = IF cell = NaN THEN 0
                                 ELSE cell.value \div cell.scale
    BY <1>5 DEF SortKey, cell
  <2> QED BY <2>3, <2>4
<1> QED BY <1>3, <1>4, <1>5

-----------------------------------------------------------------------------
(* Percentages and averages                                                *)

\* What SumOfColumn adds up.
ValuesOf(rows, column) == [n \in DOMAIN rows |-> rows[n][column].value]

LEMMA SumOfColumnIs ==
    ASSUME NEW rows, IsFiniteSet(DOMAIN rows), NEW column,
           \A n \in DOMAIN rows : rows[n][column].value \in Int
    PROVE  \E sum : /\ AddsUp(sum, ValuesOf(rows, column), DOMAIN rows)
                    /\ SumOfColumn(rows, column) = sum[DOMAIN rows]
<1> DEFINE S == DOMAIN rows
           g == [n \in S |-> rows[n][column].value]
           Solves(f) == f = [s \in SUBSET S |->
                                IF s = {} THEN 0
                                ELSE rows[Chosen(s)][column].value
                                         + f[s \ {Chosen(s)}]]
<1>1. SumOfColumn(rows, column) = (CHOOSE f : Solves(f))[S]
  BY DEF SumOfColumn, MapThenSumSet, MapThenFoldSet, Chosen
<1>2. \A s \in SUBSET S : s # {} => g[Chosen(s)] = rows[Chosen(s)][column].value
  BY ChosenType
<1>3. \A f : [s \in SUBSET S |-> IF s = {} THEN 0
                                ELSE rows[Chosen(s)][column].value
                                         + f[s \ {Chosen(s)}]]
                 = [s \in SUBSET S |-> IF s = {} THEN 0
                                       ELSE g[Chosen(s)] + f[s \ {Chosen(s)}]]
  BY <1>2
<1>4. \A f : Solves(f) <=> AddsUp(f, g, S)
  <2> HIDE DEF g
  <2> QED BY <1>3 DEF AddsUp
<1>5. \E f : AddsUp(f, g, S)
  <2>1. g \in [S -> Int]
    OBVIOUS
  <2> HIDE DEF g
  <2> QED BY <2>1, SumExists
<1> HIDE DEF Solves, g
<1>6. Solves(CHOOSE f : Solves(f))
  BY <1>4, <1>5
<1> QED BY <1>1, <1>4, <1>6 DEF g, ValuesOf

LEMMA Distributive ==
    ASSUME NEW x \in Int, NEW y \in Int, NEW z \in Int
    PROVE  x * (y + z) = x * y + x * z /\ x * y \in Int /\ x * y = y * x
  OBVIOUS

LEMMA Cancel ==
    ASSUME NEW x \in Int, NEW y \in Int, NEW b \in Nat \ {0}, b * x <= b * y
    PROVE  x <= y
<1> SUFFICES ASSUME ~(x <= y) PROVE FALSE
  OBVIOUS
<1> DEFINE d == x - y - 1
<1>1. d \in Nat /\ x = y + (1 + d)
  OBVIOUS
<1>2. b * d \in Nat
  BY <1>1
<1> HIDE DEF d
<1>3. b * x = b * y + b * (1 + d) /\ b * (1 + d) = b * 1 + b * d
  BY <1>1, Distributive
<1>4. b * y \in Int /\ b * 1 = b
  OBVIOUS
<1> QED BY <1>2, <1>3, <1>4

\* v is 10000 * g / b, rounded.
IsShare(v, g, b) == /\ 2 * (b * v) <= 20000 * g + b
                    /\ 20000 * g - b <= 2 * (b * v)

\* Each percentage is off by at most half of a hundredth, so the sum of them is
\* off by at most that much for each.
ArePercentages(total, v, N, at, sum, g, D) ==
    /\ IsFiniteSet(D) /\ g \in [D -> Nat] /\ AddsUp(sum, g, D)
    /\ N \in Nat /\ at \in Bijection(1 .. N, D) /\ sum[D] \in Nat \ {0}
    /\ v \in [1 .. N -> Int] /\ AddsUp(total, v, 1 .. N)
    /\ \A n \in 1 .. N : IsShare(v[n], g[at[n]], sum[D])

LEMMA PercentagesAddUp ==
    ASSUME NEW total, NEW v, NEW N, NEW at, NEW sum, NEW g, NEW D,
           ArePercentages(total, v, N, at, sum, g, D)
    PROVE  2 * total[1 .. N] - 20000 \in -N .. N
<1> DEFINE b == sum[D]
<1> IsFiniteSet(D) /\ g \in [D -> Nat] /\ AddsUp(sum, g, D) /\ N \in Nat
  BY DEF ArePercentages
<1> at \in Bijection(1 .. N, D) /\ b \in Nat \ {0} /\ b = sum[D]
  BY DEF ArePercentages
<1> v \in [1 .. N -> Int] /\ AddsUp(total, v, 1 .. N)
  BY DEF ArePercentages
<1> \A n \in 1 .. N : IsShare(v[n], g[at[n]], b)
  BY DEF ArePercentages
<1> HIDE DEF b
<1> DEFINE image(s) == {at[n] : n \in s}
           Close(s) ==
               /\ 2 * (b * total[s]) <= 20000 * sum[image(s)] + b * Cardinality(s)
               /\ 20000 * sum[image(s)] - b * Cardinality(s) <= 2 * (b * total[s])
           W == {s \in SUBSET (1 .. N) : ~Close(s)}
<1> HIDE DEF Close, image
<1>1. IsFiniteSet(1 .. N) /\ Cardinality(1 .. N) = N
  BY FS_Interval
<1>2. /\ total[{}] = 0
      /\ \A s \in SUBSET (1 .. N) : total[s] \in Int
      /\ \A s \in SUBSET (1 .. N) : \A n \in s : total[s] = v[n] + total[s \ {n}]
  <2>1. IsSum(total, v, 1 .. N)
    BY <1>1, SumIs
  <2> QED BY <2>1 DEF IsSum
<1>3. /\ sum[{}] = 0
      /\ \A s \in SUBSET D : sum[s] \in Int
      /\ \A s \in SUBSET D : \A a \in s : sum[s] = g[a] + sum[s \ {a}]
  <2>1. g \in [D -> Int]
    OBVIOUS
  <2>2. IsSum(sum, g, D)
    BY <2>1, SumIs
  <2> QED BY <2>2 DEF IsSum
<1>4. /\ at \in [1 .. N -> D]
      /\ \A m, n \in 1 .. N : at[m] = at[n] => m = n
      /\ \A a \in D : \E n \in 1 .. N : at[n] = a
  BY DEF Bijection, Injection, IsInjective, Surjection
<1>5. \A s \in SUBSET (1 .. N) : IsFiniteSet(s) /\ Cardinality(s) \in Nat
  BY <1>1, FS_Subset, FS_CardinalityType
<1>6. W = {}
  <2> SUFFICES ASSUME W # {} PROVE FALSE
    OBVIOUS
  <2>1. PICK s \in W : \A n \in s : s \ {n} \notin W
    <3>1. W \in SUBSET (SUBSET (1 .. N))
      OBVIOUS
    <3> HIDE DEF W
    <3> QED BY <1>1, <3>1, SmallestExists
  <2>2. s \in SUBSET (1 .. N) /\ ~Close(s)
    OBVIOUS
  <2>3. CASE s = {}
    <3>1. image(s) = {} /\ Cardinality(s) = 0
      BY <2>3, FS_EmptySet DEF image
    <3>2. b * total[s] = 0 /\ sum[image(s)] = 0
      <4>1. total[s] = 0 /\ sum[image(s)] = 0
        BY <1>2, <1>3, <2>3, <3>1
      <4>2. b * 0 = 0
        OBVIOUS
      <4> QED BY <4>1, <4>2
    <3>3. Close(s)
      <4>1. b * Cardinality(s) = 0
        BY <3>1
      <4> QED BY <3>2, <4>1 DEF Close
    <3> QED BY <2>2, <3>3
  <2>4. CASE s # {}
    <3>1. PICK n \in s : n \in 1 .. N
      BY <2>2, <2>4
    <3> DEFINE r == s \ {n}
    <3>2. r \in SUBSET (1 .. N) /\ Close(r)
      BY <2>1, <2>2, <3>1
    <3>3. Cardinality(s) = 1 + Cardinality(r) /\ Cardinality(r) \in Nat
      BY <1>5, <2>2, <3>1, <3>2, FS_RemoveElement
    <3>4. /\ total[s] = v[n] + total[r] /\ total[r] \in Int /\ v[n] \in Int
          /\ total[s] \in Int
      BY <1>2, <2>2, <3>1, <3>2
    <3>5. /\ at[n] \in image(s) /\ image(s) \ {at[n]} = image(r)
          /\ image(s) \in SUBSET D /\ image(r) \in SUBSET D
      BY <1>4, <2>2, <3>1 DEF image
    <3>6. /\ sum[image(s)] = g[at[n]] + sum[image(r)]
          /\ sum[image(r)] \in Int /\ g[at[n]] \in Int
      <4>1. g[at[n]] \in Nat
        BY <1>4, <3>1
      <4>2. sum[image(s)] = g[at[n]] + sum[image(s) \ {at[n]}]
        BY <1>3, <3>5
      <4>3. sum[image(r)] \in Int
        BY <1>3, <3>5
      <4>4. sum[image(s)] = g[at[n]] + sum[image(r)]
        BY <3>5, <4>2, Zenon
      <4> QED BY <4>1, <4>3, <4>4
    <3> DEFINE cr == Cardinality(r)
               ir == sum[image(r)]
               tr == total[r]
    <3>7. /\ 2 * (b * tr) <= 20000 * ir + b * cr
          /\ 20000 * ir - b * cr <= 2 * (b * tr)
      BY <3>2 DEF Close
    <3>8. /\ b * (v[n] + tr) = b * v[n] + b * tr
          /\ b * (1 + cr) = b + b * cr
          /\ b * v[n] \in Int /\ b * tr \in Int /\ b * cr \in Int
      <4>1. v[n] \in Int /\ tr \in Int /\ cr \in Int /\ b \in Int /\ 1 \in Int
        BY <3>3, <3>4
      <4> HIDE DEF cr, tr
      <4>2. b * (v[n] + tr) = b * v[n] + b * tr /\ b * v[n] \in Int
        BY <4>1, Distributive
      <4> DEFINE one == 1
      <4>3. /\ one \in Int /\ b * one = b /\ one + cr = 1 + cr
            /\ b * tr \in Int /\ b * cr \in Int
        BY <4>1
      <4> HIDE DEF one
      <4>4. b * (one + cr) = b * one + b * cr
        <5>1. one \in Int /\ cr \in Int /\ b \in Int
          BY <4>1, <4>3
        <5> QED BY <5>1, Distributive
      <4> QED BY <4>2, <4>3, <4>4
    <3>9. /\ 2 * (b * v[n]) <= 20000 * g[at[n]] + b
          /\ 20000 * g[at[n]] - b <= 2 * (b * v[n])
      BY <3>1 DEF IsShare
    <3>10. /\ total[s] = v[n] + tr /\ Cardinality(s) = 1 + cr
           /\ sum[image(s)] = g[at[n]] + ir /\ ir \in Int
      BY <3>3, <3>4, <3>6
    <3> HIDE DEF cr, ir, tr
    <3> DEFINE bv == b * v[n]
               bt == b * tr
               bc == b * cr
    <3>11. /\ b * total[s] = bv + bt /\ b * Cardinality(s) = b + bc
           /\ bv \in Int /\ bt \in Int /\ bc \in Int
      BY <3>8, <3>10
    <3>12. /\ 2 * bt <= 20000 * ir + bc /\ 20000 * ir - bc <= 2 * bt
           /\ 2 * bv <= 20000 * g[at[n]] + b /\ 20000 * g[at[n]] - b <= 2 * bv
      BY <3>7, <3>9
    <3> HIDE DEF bv, bt, bc
    <3>13. Close(s)
      <4> DEFINE ts == b * total[s]
                 cs == b * Cardinality(s)
                 is == sum[image(s)]
                 gn == g[at[n]]
      <4>1. ts = bv + bt /\ cs = b + bc /\ is = gn + ir
        BY <3>10, <3>11
      <4>2. gn \in Int /\ ir \in Int /\ bv \in Int /\ bt \in Int /\ bc \in Int
        BY <3>6, <3>10, <3>11
      <4>3. 2 * bv <= 20000 * gn + b /\ 20000 * gn - b <= 2 * bv
        BY <3>12
      <4>4. 2 * bt <= 20000 * ir + bc /\ 20000 * ir - bc <= 2 * bt
        BY <3>12
      <4> HIDE DEF ts, cs, is, gn
      <4>5. /\ 2 * (bv + bt) <= 20000 * (gn + ir) + (b + bc)
            /\ 20000 * (gn + ir) - (b + bc) <= 2 * (bv + bt)
        BY <4>2, <4>3, <4>4
      <4>6. 2 * ts <= 20000 * is + cs /\ 20000 * is - cs <= 2 * ts
        BY <4>1, <4>5
      <4> QED BY <4>6 DEF Close, ts, cs, is
    <3> QED BY <2>2, <3>13
  <2> QED BY <2>3, <2>4
<1> DEFINE all == 1 .. N
<1>7. image(all) = D
  BY <1>4 DEF image
<1>8. Close(all)
  BY <1>6
<1>9. total[all] \in Int
  BY <1>2
<1> DEFINE t == total[all]
<1>10. /\ 2 * (b * t) <= 20000 * b + b * N /\ 20000 * b - b * N <= 2 * (b * t)
  BY <1>1, <1>7, <1>8 DEF Close
<1>11. t \in Int
  BY <1>9
<1> HIDE DEF t, all, W
<1>12. /\ b * (2 * t) = 2 * (b * t) /\ b * (20000 + N) = 20000 * b + b * N
       /\ b * (20000 - N) = 20000 * b - b * N
  <2>1. b * (t + t) = b * t + b * t /\ t + t = 2 * t /\ b * t \in Int
    BY <1>11, Distributive
  <2> DEFINE c == 20000
             m == -N
  <2>2. b \in Int /\ N \in Int /\ m \in Int /\ c \in Int
    OBVIOUS
  <2>3. b * c = 20000 * b /\ b * m = -(b * N) /\ c + m = 20000 - N /\ b * N \in Int
    OBVIOUS
  <2>4. c + N = 20000 + N
    OBVIOUS
  <2> HIDE DEF c, m
  <2>5. b * (c + N) = b * c + b * N
    BY <2>2, Distributive
  <2>6. b * (c + m) = b * c + b * m
    BY <2>2, Distributive
  <2>7. b * (2 * t) = 2 * (b * t)
    BY <2>1
  <2>8. b * (20000 + N) = 20000 * b + b * N
    BY <2>3, <2>4, <2>5
  <2>9. b * (20000 - N) = 20000 * b - b * N
    BY <2>3, <2>6
  <2> QED BY <2>7, <2>8, <2>9
<1>13. 2 * t <= 20000 + N /\ 20000 - N <= 2 * t
  <2> DEFINE x == 2 * t
             y == 20000 + N
             z == 20000 - N
  <2>1. x \in Int /\ y \in Int /\ z \in Int
    BY <1>11
  <2>2. b * x <= b * y /\ b * z <= b * x
    BY <1>10, <1>12
  <2> HIDE DEF x, y, z
  <2>3. x <= y
    BY <2>1, <2>2, Cancel
  <2>4. z <= x
    BY <2>1, <2>2, Cancel
  <2> QED BY <2>3, <2>4 DEF x, y, z
<1>14. 2 * t - 20000 \in -N .. N
  BY <1>11, <1>13
<1> QED BY <1>14 DEF t, all

\* The percentages of the functions are shares of the sum of the times.
LEMMA RoundedPercentage ==
    ASSUME NEW t \in Nat, NEW b \in Nat \ {0}
    PROVE  IsShare(Rounded(t * 100, b, 100).value, t, b)
<1> DEFINE x == 2 * (t * 100) * 100 + b
           y == 2 * b
           v == Rounded(t * 100, b, 100).value
<1>1. t * 100 \in Nat /\ 100 \in Nat \ {0}
  OBVIOUS
<1>2. v = x \div y /\ v \in Int
  BY <1>1, RoundedIs
<1>3. x \in Nat /\ y \in Nat /\ y > 0 /\ x = 20000 * t + b
  OBVIOUS
<1> HIDE DEF v
<1>4. y * v <= x /\ x < y * v + y
  <2> HIDE DEF x, y
  <2>1. \A m \in Nat, n \in Nat : n > 0 =>
            n * (m \div n) <= m /\ m < n * (m \div n) + n
    OBVIOUS
  <2> QED BY <1>2, <1>3, <2>1
<1>5. y * v = 2 * (b * v) /\ b * v \in Int
  BY <1>2
<1>6. y = 2 * b
  OBVIOUS
<1> HIDE DEF x, y
<1> DEFINE p == b * v
<1> HIDE DEF p
<1>7. 2 * p <= 20000 * t + b /\ 20000 * t + b < 2 * p + 2 * b /\ p \in Int
  BY <1>3, <1>4, <1>5, <1>6 DEF p
<1>8. 2 * p <= 20000 * t + b /\ 20000 * t - b <= 2 * p
  BY <1>7
<1> QED BY <1>8 DEF IsShare, p, v

\* An average that is rounded is not above the worst time.
LEMMA RoundedAverage ==
    ASSUME NEW a \in Nat, NEW n \in Nat \ {0}, NEW w \in Nat, a <= n * w
    PROVE  Rounded(a, n, 10).value <= Rounded(w, 1, 10).value
<1>1. 10 \in Nat \ {0} /\ 1 \in Nat \ {0}
  OBVIOUS
<1> DEFINE u == Rounded(a, n, 10).value
           x == 2 * a * 10 + n
           y == 2 * n
<1>2. u = x \div y /\ u \in Int
  BY <1>1, RoundedIs
<1>3. Rounded(w, 1, 10).value = (2 * w * 10 + 1) \div (2 * 1)
  BY <1>1, RoundedIs
<1>4. (2 * w * 10 + 1) \div (2 * 1) = 10 * w
  OBVIOUS
<1>5. n * w \in Nat /\ n * (10 * w) = 10 * (n * w)
  OBVIOUS
<1> HIDE DEF u
<1>6. x \in Nat /\ y \in Nat /\ y > 0 /\ x = 20 * a + n /\ y * u = 2 * (n * u)
      /\ n * u \in Int
  BY <1>2
<1>7. y * u <= x
  <2> HIDE DEF x, y
  <2>1. \A m \in Nat, k \in Nat : k > 0 => k * (m \div k) <= m
    OBVIOUS
  <2> QED BY <1>2, <1>6, <2>1
<1> HIDE DEF x, y
<1>8. u <= 10 * w
  <2> SUFFICES ASSUME 10 * w + 1 <= u PROVE FALSE
    BY <1>2
  <2> DEFINE d == u - (10 * w + 1)
             e == 10 * w + 1
  <2>1. d \in Nat /\ u = e + d /\ n * d \in Nat /\ e \in Int /\ n \in Int
    BY <1>2
  <2>2. n * e = 10 * (n * w) + n
    <3> DEFINE f == 10 * w
               one == 1
    <3>1. f \in Int /\ one \in Int /\ n * one = n /\ e = f + one
      OBVIOUS
    <3> HIDE DEF f, one, e
    <3>2. n * e = n * f + n * one
      BY <2>1, <3>1, Distributive
    <3> QED BY <1>5, <3>1, <3>2 DEF f
  <2> HIDE DEF d, e
  <2>3. n * u = n * e + n * d
    BY <2>1, Distributive
  <2> DEFINE p == n * w
             q == n * u
  <2>4. q >= 10 * p + n /\ p \in Nat /\ q \in Int
    BY <1>5, <1>6, <2>1, <2>2, <2>3
  <2>5. 2 * q <= 20 * a + n /\ a <= p
    BY <1>6, <1>7
  <2> HIDE DEF p, q
  <2> QED BY <2>4, <2>5
<1> QED BY <1>3, <1>4, <1>8 DEF u

LEMMA TableRowsAre ==
    ASSUME NEW p, NEW recursing, IsProfile(p, recursing)
    PROVE  \E at \in Bijection(1 .. Cardinality(DOMAIN p), DOMAIN p) :
               TableRows(p) = [n \in 1 .. Cardinality(DOMAIN p) |->
                                  TableRow(p, p[at[n]])]
<1> DEFINE N == Cardinality(DOMAIN p)
<1>1. PICK at \in Bijection(1 .. N, DOMAIN p) :
          GetStatistics(p) = [n \in 1 .. N |-> p[at[n]]]
  BY StatisticsAre
<1> HIDE DEF N
<1>2. DOMAIN GetStatistics(p) = 1 .. N
      /\ \A n \in 1 .. N : GetStatistics(p)[n] = p[at[n]]
  BY <1>1
<1>3. TableRows(p) = [n \in DOMAIN GetStatistics(p) |->
                         TableRow(p, GetStatistics(p)[n])]
  BY DEF TableRows
<1>4. TableRows(p) = [n \in 1 .. N |-> TableRow(p, p[at[n]])]
  BY <1>2, <1>3
<1> QED BY <1>4 DEF N

\* The columns of a table fit together, for each of the two percentages.
LEMMA TableIsConsistent ==
    ASSUME NEW p, NEW recursing \in BOOLEAN, IsProfile(p, recursing),
           NEW percent \in {4, 8}
    PROVE  /\ PercentagesFit(TableRows(p), percent)
           /\ recursing \/ AveragesFit(TableRows(p), percent)
<1> DEFINE D == DOMAIN p
           N == Cardinality(D)
           rows == TableRows(p)
           field == IF percent = 4 THEN "self" ELSE "total"
           b == AllTimes(p, field)
           g == [a \in D |-> p[a][field]]
<1>1. PICK at \in Bijection(1 .. N, D) :
          rows = [n \in 1 .. N |-> TableRow(p, p[at[n]])]
  BY TableRowsAre
<1>2. IsFiniteSet(D) /\ N \in Nat
  BY FS_CardinalityType DEF IsProfile
<1>3. g \in [D -> Nat] /\ b \in Nat /\ \E sum : AddsUp(sum, g, D) /\ b = sum[D]
  <2>1. field \in {"self", "total"}
    OBVIOUS
  <2> HIDE DEF field
  <2> QED BY <2>1, TimesAre
<1>4. at \in [1 .. N -> D]
  BY DEF Bijection, Injection
<1>5. DOMAIN rows = 1 .. N /\ Len(rows) = N /\ IsFiniteSet(1 .. N)
  BY <1>1, <1>2, FS_Interval
<1>6. ASSUME NEW n \in 1 .. N
      PROVE  /\ rows[n][percent] = Rounded(g[at[n]] * 100, b, 100)
             /\ rows[n][percent + 2] = Rounded(g[at[n]], p[at[n]].calls, 10)
             /\ rows[n][percent + 3]
                    = Rounded(IF percent = 4 THEN p[at[n]].worst_self
                              ELSE p[at[n]].worst_total, 1, 10)
  <2> DEFINE fn == p[at[n]]
  <2>1. rows[n] = TableRow(p, fn)
    BY <1>1
  <2>2. at[n] \in D
    BY <1>4
  <2>3. g[at[n]] = fn[field]
    BY <2>2
  <2> HIDE DEF fn, g, rows
  <2>4. CASE percent = 4
    <3>1. fn[field] = fn.self
      BY <2>4
    <3> QED BY <2>1, <2>3, <2>4, <3>1 DEF TableRow, fn
  <2>5. CASE percent = 8
    <3>1. fn[field] = fn.total
      BY <2>5
    <3> QED BY <2>1, <2>3, <2>5, <3>1 DEF TableRow, fn
  <2> QED BY <2>4, <2>5
<1> HIDE DEF D, N, rows, field, b, g
<1>7. ASSUME b = 0
      PROVE  PercentagesFit(rows, percent)
  <2>1. \A n \in 1 .. N : rows[n][percent] = NaN
    BY <1>6, <1>7 DEF Rounded
  <2> QED BY <1>5, <2>1 DEF PercentagesFit
<1>8. ASSUME b # 0
      PROVE  PercentagesFit(rows, percent)
  <2> DEFINE v == [n \in 1 .. N |-> rows[n][percent].value]
             summed == SumOfColumn(rows, percent)
  <2>1. ASSUME NEW n \in 1 .. N
        PROVE  v[n] \in Int /\ IsShare(v[n], g[at[n]], b)
    <3>1. g[at[n]] \in Nat /\ b \in Nat \ {0}
      BY <1>3, <1>4, <1>8
    <3>2. v[n] = Rounded(g[at[n]] * 100, b, 100).value
      BY <1>6
    <3>3. g[at[n]] * 100 \in Nat /\ 100 \in Nat \ {0}
      BY <3>1
    <3>4. Rounded(g[at[n]] * 100, b, 100).value \in Int
      BY <3>1, <3>3, RoundedIs
    <3>5. IsShare(Rounded(g[at[n]] * 100, b, 100).value, g[at[n]], b)
      BY <3>1, RoundedPercentage
    <3> QED BY <3>2, <3>4, <3>5
  <2>2. PICK total : AddsUp(total, v, 1 .. N) /\ summed = total[1 .. N]
    <3>1. IsFiniteSet(DOMAIN rows) /\ \A n \in DOMAIN rows : rows[n][percent].value \in Int
      BY <1>5, <2>1
    <3>2. \E total : /\ AddsUp(total, ValuesOf(rows, percent), DOMAIN rows)
                      /\ summed = total[DOMAIN rows]
      BY <3>1, SumOfColumnIs
    <3>3. ValuesOf(rows, percent) = v
      BY <1>5 DEF ValuesOf
    <3> HIDE DEF summed, v
    <3> QED BY <1>5, <3>2, <3>3
  <2>3. v \in [1 .. N -> Int]
    BY <2>1
  <2>4. PICK sum : AddsUp(sum, g, D) /\ b = sum[D]
    BY <1>3
  <2> HIDE DEF v
  <2>5. b \in Nat \ {0} /\ \A n \in 1 .. N : IsShare(v[n], g[at[n]], b)
    BY <1>3, <1>8, <2>1
  <2>6. at \in Bijection(1 .. N, D)
    BY DEF N, D
  <2>7. 2 * total[1 .. N] - 20000 \in -N .. N
    <3>1. \A n \in 1 .. N : IsShare(v[n], g[at[n]], sum[D])
      BY <2>4, <2>5
    <3>2. ArePercentages(total, v, N, at, sum, g, D)
      BY <1>2, <1>3, <2>2, <2>3, <2>4, <2>5, <2>6, <3>1 DEF ArePercentages
    <3> QED BY <3>2, PercentagesAddUp
  <2>8. PercentagesFit(rows, percent)
             <=> \/ \A n \in DOMAIN rows : rows[n][percent] = NaN
                 \/ 2 * summed - 20000 \in -Len(rows) .. Len(rows)
    BY DEF PercentagesFit
  <2> HIDE DEF summed
  <2> QED BY <1>5, <2>2, <2>7, <2>8
<1>9. ASSUME ~recursing, NEW n \in 1 .. N
      PROVE  rows[n][percent + 2].value <= rows[n][percent + 3].value
  <2> DEFINE fn == p[at[n]]
             w == IF percent = 4 THEN fn.worst_self ELSE fn.worst_total
  <2>1. at[n] \in D
    BY <1>4
  <2>2. /\ fn.calls \in Nat \ {0} /\ w \in Nat
        /\ fn[field] <= fn.calls * w
    <3>1. /\ fn \in FunctionStatistics /\ fn.calls > 0
          /\ fn.self <= fn.calls * fn.worst_self
          /\ fn.total <= fn.calls * fn.worst_total
      BY <1>9, <2>1 DEF IsProfile, D
    <3>2. fn.calls \in Nat \ {0} /\ fn.worst_self \in Nat /\ fn.worst_total \in Nat
      BY <3>1 DEF FunctionStatistics
    <3> HIDE DEF fn
    <3>3. CASE percent = 4
      BY <3>1, <3>2, <3>3 DEF field
    <3>4. CASE percent = 8
      BY <3>1, <3>2, <3>4 DEF field
    <3> QED BY <3>3, <3>4
  <2>3. g[at[n]] = fn[field] /\ g[at[n]] \in Nat
    BY <1>3, <2>1 DEF g
  <2>4. /\ rows[n][percent + 2] = Rounded(g[at[n]], fn.calls, 10)
        /\ rows[n][percent + 3] = Rounded(w, 1, 10)
    BY <1>6
  <2> HIDE DEF fn, w
  <2>5. g[at[n]] <= fn.calls * w
    BY <2>2, <2>3
  <2> QED BY <2>2, <2>3, <2>4, <2>5, RoundedAverage
<1>10. recursing \/ AveragesFit(rows, percent)
  BY <1>5, <1>9 DEF AveragesFit
<1> QED BY <1>7, <1>8, <1>10 DEF rows

-----------------------------------------------------------------------------
(* The tables and the page                                                 *)

\* The rows of all tables.
MeasuredRows ==
    UNION {{TableRow(Measured[n].profile, Measured[n].profile[a]) :
               a \in DOMAIN Measured[n].profile} : n \in DOMAIN Measured}

LEMMA ProfilesAre ==
    ASSUME NEW n \in DOMAIN Measured
    PROVE  IsProfile(Measured[n].profile, Measured[n].recursing)
  BY OutputAssumption DEF OutputAssumption

LEMMA TablesHaveRows ==
    ASSUME NEW n \in DOMAIN Measured
    PROVE  TableRows(Measured[n].profile) \in Seq(MeasuredRows)
<1> DEFINE p == Measured[n].profile
           N == Cardinality(DOMAIN p)
<1>1. IsProfile(p, Measured[n].recursing)
  BY ProfilesAre
<1>2. PICK at \in Bijection(1 .. N, DOMAIN p) :
          TableRows(p) = [i \in 1 .. N |-> TableRow(p, p[at[i]])]
  BY <1>1, TableRowsAre
<1>3. N \in Nat
  BY <1>1, FS_CardinalityType DEF IsProfile
<1>4. at \in [1 .. N -> DOMAIN p]
  BY DEF Bijection, Injection
<1>5. \A i \in 1 .. N : TableRow(p, p[at[i]]) \in MeasuredRows
  BY <1>4 DEF MeasuredRows
<1> HIDE DEF p, N
<1>6. [i \in 1 .. N |-> TableRow(p, p[at[i]])] \in Seq(MeasuredRows)
  BY <1>3, <1>5
<1> QED BY <1>2, <1>6 DEF p

LEMMA TablesAreSortable ==
    ASSUME NEW rows \in Seq(MeasuredRows), NEW colIndex \in 0 .. 10
    PROVE  Sortable(rows, colIndex)
<1> SUFFICES ASSUME NEW i \in 1 .. Len(rows)
             PROVE  SortKey(rows[i], colIndex) \in Int
  BY DEF Sortable
<1>1. rows[i] \in MeasuredRows
  OBVIOUS
<1>2. PICK n \in DOMAIN Measured : \E a \in DOMAIN Measured[n].profile :
          rows[i] = TableRow(Measured[n].profile, Measured[n].profile[a])
  BY <1>1 DEF MeasuredRows
<1>3. IsProfile(Measured[n].profile, Measured[n].recursing)
  BY ProfilesAre
<1> QED BY <1>2, <1>3, RowsAreSortable

\* A file has what was measured when it was written.
ContentsInv ==
    \A k \in DOMAIN files :
        /\ files[k].measured \in DOMAIN Measured
        /\ files[k].writer \in {"html", "text"} =>
               files[k].rows = TableRows(Measured[files[k].measured].profile)
        /\ files[k].writer = "dot" =>
               LET m == Measured[files[k].measured]
               IN  /\ files[k].edges = WriteNodes(m.profile, m.graph)
                   /\ files[k].nodes = WriteNodeColors(m.profile,
                                                       Traversed(m.graph))

LEMMA ContentsStep == TypeOK /\ ContentsInv /\ [Next]_vars => ContentsInv'
<1> SUFFICES ASSUME TypeOK, ContentsInv, [Next]_vars PROVE ContentsInv'
  OBVIOUS
<1> DEFINE Good(file) ==
        /\ file.measured \in DOMAIN Measured
        /\ file.writer \in {"html", "text"} =>
               file.rows = TableRows(Measured[file.measured].profile)
        /\ file.writer = "dot" =>
               LET m == Measured[file.measured]
               IN  /\ file.edges = WriteNodes(m.profile, m.graph)
                   /\ file.nodes = WriteNodeColors(m.profile, Traversed(m.graph))
<1>1. CASE files' = files
  BY <1>1 DEF ContentsInv
<1>2. ASSUME NEW cannotOpen, DumpFiles(cannotOpen)
      PROVE  ContentsInv'
  <2>1. Good(WrittenProfile)
    <3>1. CASE WriterOf(OutputFormat(settings)) = "none"
      <4>1. WrittenProfile.writer = "none" /\ WrittenProfile.measured = measured
        BY <3>1, WrittenProfileIs
      <4> QED BY <4>1 DEF TypeOK
    <3>2. CASE WriterOf(OutputFormat(settings)) = "html"
      <4>1. /\ WrittenProfile.measured = measured /\ WrittenProfile.writer = "html"
            /\ WrittenProfile.rows = TableRows(profile)
        BY <3>2 DEF WrittenProfile
      <4> QED BY <4>1 DEF TypeOK, profile
    <3>3. CASE WriterOf(OutputFormat(settings)) = "text"
      <4>1. /\ WrittenProfile.measured = measured /\ WrittenProfile.writer = "text"
            /\ WrittenProfile.rows = TextRows(profile)
        BY <3>3 DEF WrittenProfile
      <4> QED BY <4>1 DEF TypeOK, profile, TextRows
    <3>4. CASE WriterOf(OutputFormat(settings)) = "json"
      <4>1. WrittenProfile.writer = "json" /\ WrittenProfile.measured = measured
        BY <3>4, WrittenProfileIs
      <4> QED BY <4>1 DEF TypeOK
    <3> QED BY <3>1, <3>2, <3>3, <3>4 DEF WriterOf
  <2>2. Good(WrittenCalls)
    <3>1. CASE CallGraphFormat(settings) = <<"dot">>
      <4>1. /\ WrittenCalls.measured = measured /\ WrittenCalls.writer = "dot"
            /\ WrittenCalls.edges = WriteNodes(profile, graph)
            /\ WrittenCalls.nodes = WriteNodeColors(profile, Traversed(graph))
        BY <3>1 DEF WrittenCalls
      <4> QED BY <4>1 DEF TypeOK, profile, graph
    <3>2. CASE CallGraphFormat(settings) # <<"dot">>
      <4>1. WrittenCalls.writer = "none" /\ WrittenCalls.measured = measured
        BY <3>2, WrittenCallsIs
      <4> QED BY <4>1 DEF TypeOK
    <3> QED BY <3>1, <3>2
  <2>3. ASSUME NEW k \in DOMAIN files'
        PROVE  Good(files'[k])
    <3>1. CASE k \in DOMAIN files /\ files'[k] = files[k]
      BY <3>1 DEF ContentsInv
    <3>2. CASE files'[k] \in {WrittenProfile, WrittenCalls}
      <4> HIDE DEF Good
      <4> QED BY <2>1, <2>2, <3>2
    <3> HIDE DEF Good
    <3> QED BY <1>2, <2>3, <3>1, <3>2, DumpWrites
  <2> QED BY <2>3 DEF ContentsInv
<1>3. ProfilerDump \/ AmxUnload \/ files' = files
  BY DEF Next, AmxLoad, ProfilerStart, Run, OpenPage, Click, vars
<1> QED BY <1>1, <1>2, <1>3 DEF ProfilerDump, AmxUnload

\* No row goes before the one above it.
InOrder(rows, colIndex, reverseOrder) ==
    \A n \in 2 .. Len(rows) :
        ~GoesBefore(rows[n], rows[n - 1], colIndex, reverseOrder)

\* Only the header that was clicked last has an arrow.
ArrowAt(p, cell) ==
    /\ p.arrow[cell] \in {"up", "down"}
    /\ \A c \in HeaderCells : c # cell => p.arrow[c] = "none"
    /\ InOrder(p.rows, cell[2], p.arrow[cell] = "down")

PageInv ==
    page # None =>
        /\ page.rows \in Seq(MeasuredRows)
        /\ \/ \A c \in HeaderCells : page.arrow[c] = "none"
           \/ \E cell \in HeaderCells : ArrowAt(page, cell)

LEMMA HeaderColumns ==
    ASSUME NEW cell \in HeaderCells
    PROVE  cell[2] \in 0 .. 10
  BY DEF HeaderCells

LEMMA ClickSorts ==
    ASSUME TypeOK, PageInv, NEW cell \in Clicks, Click(cell)
    PROVE  /\ cell \in HeaderCells /\ cell[2] \in 0 .. 10
           /\ page.asc \in [0 .. 10 -> BOOLEAN] /\ page.asc[cell[2]] \in BOOLEAN
           /\ page.rows \in Seq(MeasuredRows)
           /\ Sortable(page.rows, cell[2])
           /\ page'.rows = SortRows(page.rows, cell[2], page.asc[cell[2]])
           /\ page'.asc = [page.asc EXCEPT ![cell[2]] = ~@]
           /\ page'.arrow = [c \in HeaderCells |->
                                IF c # cell THEN "none"
                                ELSE IF page.asc[cell[2]] THEN "down" ELSE "up"]
<1>1. cell \in HeaderCells
  BY OutputAssumption DEF OutputAssumption
<1>2. cell[2] \in 0 .. 10
  BY <1>1, HeaderColumns
<1>3. page # None /\ page' = Clicked(page, cell)
  BY DEF Click
<1>4. page.asc \in [0 .. 10 -> BOOLEAN] /\ page.rows \in Seq(MeasuredRows)
  BY <1>3 DEF TypeOK, PageInv
<1>5. Sortable(page.rows, cell[2])
  BY <1>2, <1>4, TablesAreSortable
<1>6. /\ page'.rows = SortRows(page.rows, cell[2], page.asc[cell[2]])
      /\ page'.asc = [page.asc EXCEPT ![cell[2]] = ~@]
      /\ page'.arrow = [c \in HeaderCells |->
                           IF c # cell THEN "none"
                           ELSE IF page.asc[cell[2]] THEN "down" ELSE "up"]
  BY <1>3 DEF Clicked
<1> QED BY <1>1, <1>2, <1>4, <1>5, <1>6

LEMMA PageStep ==
    TypeOK /\ ContentsInv /\ PageInv /\ [Next]_vars => PageInv'
<1> SUFFICES ASSUME TypeOK, ContentsInv, PageInv, [Next]_vars PROVE PageInv'
  OBVIOUS
<1>1. CASE page' = page
  BY <1>1 DEF PageInv, ArrowAt
<1>2. CASE OpenPage
  <2>1. PICK k \in DOMAIN files :
            files[k].writer = "html" /\ page' = NewPage(files[k].rows)
    BY <1>2 DEF OpenPage
  <2>2. files[k].rows \in Seq(MeasuredRows)
    BY <2>1, TablesHaveRows DEF ContentsInv
  <2>3. page'.rows = files[k].rows /\ \A c \in HeaderCells : page'.arrow[c] = "none"
    BY <2>1 DEF NewPage
  <2> QED BY <2>2, <2>3 DEF PageInv
<1>3. ASSUME NEW cell \in Clicks, Click(cell)
      PROVE  PageInv'
  <2> DEFINE rows == page.rows
             c2 == cell[2]
             reverse == page.asc[c2]
  <2>1. /\ cell \in HeaderCells /\ reverse \in BOOLEAN
        /\ rows \in Seq(MeasuredRows) /\ Sortable(rows, c2)
        /\ page'.rows = SortRows(rows, c2, reverse)
        /\ page'.arrow = [c \in HeaderCells |->
                             IF c # cell THEN "none"
                             ELSE IF reverse THEN "down" ELSE "up"]
    BY <1>3, ClickSorts
  <2> HIDE DEF rows, c2, reverse
  <2>2. SortRows(rows, c2, reverse) \in Seq(MeasuredRows)
        /\ Len(SortRows(rows, c2, reverse)) = Len(rows)
    BY <2>1, SortedRows
  <2>3. InOrder(SortRows(rows, c2, reverse), c2, reverse)
    BY <2>1, <2>2, SortedInOrder DEF InOrder
  <2>4. /\ page'.arrow[cell] = IF reverse THEN "down" ELSE "up"
        /\ \A c \in HeaderCells : c # cell => page'.arrow[c] = "none"
    BY <2>1
  <2>5. (page'.arrow[cell] = "down") = reverse
    BY <2>1, <2>4
  <2>6. InOrder(page'.rows, c2, page'.arrow[cell] = "down")
    BY <2>1, <2>3, <2>5
  <2>7. ArrowAt(page', cell)
    BY <2>4, <2>6 DEF ArrowAt, c2
  <2> QED BY <2>1, <2>2, <2>7 DEF PageInv
<1>4. OpenPage \/ (\E cell \in Clicks : Click(cell)) \/ page' = page
  BY DEF Next, AmxLoad, ProfilerStart, Run, ProfilerDump, AmxUnload, vars
<1> QED BY <1>1, <1>2, <1>3, <1>4

LEMMA OutputInvariant == Spec => [](TypeOK /\ ContentsInv /\ PageInv)
<1>1. Init => TypeOK /\ ContentsInv /\ PageInv
  <2>1. Init => DOMAIN files = {} /\ page = None
    BY DEF Init
  <2> QED BY <2>1, TypeInit DEF ContentsInv, PageInv
<1>2. TypeOK /\ ContentsInv /\ PageInv /\ [Next]_vars
          => (TypeOK /\ ContentsInv /\ PageInv)'
  BY TypeStep, ContentsStep, PageStep
<1> QED BY <1>1, <1>2, PTL DEF Spec

\* The header never shows more than one arrow, and the rows are in the order that
\* it tells, whatever was clicked before and whatever has been measured (sort and
\* the listener of the clicks).
THEOREM ArrowAlwaysTellsOrder == Spec => []ArrowTellsOrder
<1>1. PageInv => ArrowTellsOrder
  <2> SUFFICES ASSUME PageInv, page # None
               PROVE  LET shown == {c \in HeaderCells : page.arrow[c] # "none"}
                      IN  /\ Cardinality(shown) <= 1
                          /\ \A c \in shown : \A n \in 2 .. Len(page.rows) :
                                ~GoesBefore(page.rows[n], page.rows[n - 1], c[2],
                                            page.arrow[c] = "down")
    BY DEF ArrowTellsOrder
  <2> DEFINE shown == {c \in HeaderCells : page.arrow[c] # "none"}
  <2>1. CASE shown = {}
    <3>1. Cardinality(shown) = 0
      BY <2>1, FS_EmptySet
    <3> HIDE DEF shown
    <3>2. Cardinality(shown) <= 1
      BY <3>1
    <3> QED BY <2>1, <3>2 DEF shown
  <2>2. CASE shown # {}
    <3>1. PICK cell \in HeaderCells : ArrowAt(page, cell)
      BY <2>2 DEF PageInv
    <3>2. shown = {cell}
      BY <3>1 DEF ArrowAt
    <3>3. Cardinality({cell}) = 1
      BY FS_Singleton
    <3>4. InOrder(page.rows, cell[2], page.arrow[cell] = "down")
      BY <3>1 DEF ArrowAt
    <3> HIDE DEF shown
    <3>5. Cardinality(shown) <= 1
      BY <3>2, <3>3
    <3>6. \A c \in shown : InOrder(page.rows, c[2], page.arrow[c] = "down")
      BY <3>2, <3>4
    <3> QED BY <3>5, <3>6 DEF shown, InOrder
  <2> QED BY <2>1, <2>2
<1> QED BY <1>1, OutputInvariant, PTL

\* What a click does, the action of ClicksSortStably.
SortsStably ==
    page # None /\ page'.asc # page.asc =>
        LET c == CHOOSE i \in 0 .. 10 : page'.asc[i] # page.asc[i]
            Before(m, n) ==
                LET a == page.rows[m] b == page.rows[n]
                IN  \/ GoesBefore(a, b, c, page.asc[c])
                    \/ m < n /\ ~GoesBefore(b, a, c, page.asc[c])
        IN  \A n \in DOMAIN page.rows :
                LET place == Cardinality({m \in DOMAIN page.rows \ {n} :
                                             Before(m, n)}) + 1
                IN  page'.rows[place] = page.rows[n]

\* A click keeps every row, and where a row is afterwards follows from the rows
\* that go before it and, of its equals, those that did: sorting by one column
\* and then by another combines them (sort).
THEOREM ClicksAlwaysSortStably == Spec => ClicksSortStably
<1>1. TypeOK /\ PageInv /\ [Next]_vars => [SortsStably]_page
  <2> SUFFICES ASSUME TypeOK, PageInv, [Next]_vars, page' # page,
                      page # None, page'.asc # page.asc
               PROVE  SortsStably
    BY DEF SortsStably
  <2>1. PICK cell \in Clicks : Click(cell)
    BY DEF Next, AmxLoad, ProfilerStart, Run, ProfilerDump, AmxUnload, OpenPage, vars
  <2> DEFINE rows == page.rows
             c == CHOOSE i \in 0 .. 10 : page'.asc[i] # page.asc[i]
             reverse == page.asc[c]
             key == SortKeys(rows, c, reverse)
             Before(m, n) == \/ GoesBefore(rows[m], rows[n], c, reverse)
                             \/ m < n /\ ~GoesBefore(rows[n], rows[m], c, reverse)
  <2>2. c = cell[2]
    <3>1. /\ page.asc \in [0 .. 10 -> BOOLEAN] /\ cell[2] \in 0 .. 10
          /\ page'.asc = [page.asc EXCEPT ![cell[2]] = ~@]
      BY <2>1, ClickSorts
    <3>2. page'.asc[cell[2]] # page.asc[cell[2]]
      BY <3>1
    <3>3. \A i \in 0 .. 10 : page'.asc[i] # page.asc[i] => i = cell[2]
      BY <3>1
    <3> QED BY <3>1, <3>2, <3>3
  <2> HIDE DEF c
  <2>3. /\ reverse \in BOOLEAN
        /\ rows \in Seq(MeasuredRows) /\ Sortable(rows, c)
        /\ page'.rows = SortRows(rows, c, reverse)
    BY <2>1, <2>2, ClickSorts
  <2> HIDE DEF rows, reverse, key
  <2>4. DOMAIN rows = 1 .. Len(rows)
    BY <2>3
  <2>5. ASSUME NEW n \in 1 .. Len(rows)
        PROVE  page'.rows[Cardinality({m \in 1 .. Len(rows) \ {n} : Before(m, n)}) + 1]
                   = rows[n]
    <3>1. SortRows(rows, c, reverse)[Place(key, Len(rows), n)] = rows[n]
      BY <2>3, SortedRows DEF key
    <3>2. /\ key \in [1 .. Len(rows) -> Int]
          /\ \A i, j \in 1 .. Len(rows) :
                GoesBefore(rows[i], rows[j], c, reverse) <=> key[i] < key[j]
      BY <2>3, GoesBeforeIs DEF key
    <3>3. ASSUME NEW m \in 1 .. Len(rows)
          PROVE  Precedes(key, m, n) <=> m # n /\ Before(m, n)
      <4>1. key[m] \in Int /\ key[n] \in Int /\ m \in Int /\ n \in Int
        BY <3>2
      <4> QED BY <3>2, <4>1 DEF Precedes
    <3> HIDE DEF Before
    <3>4. Preceding(key, Len(rows), n) = {m \in 1 .. Len(rows) \ {n} : Before(m, n)}
      BY <3>3 DEF Preceding
    <3>5. Place(key, Len(rows), n)
              = Cardinality({m \in 1 .. Len(rows) \ {n} : Before(m, n)}) + 1
      BY <3>4 DEF Place
    <3> QED BY <2>3, <3>1, <3>5
  <2>6. \A n \in DOMAIN rows :
            page'.rows[Cardinality({m \in DOMAIN rows \ {n} : Before(m, n)}) + 1]
                = rows[n]
    BY <2>4, <2>5
  <2> QED BY <2>6 DEF c, rows, reverse, SortsStably
<1>2. Spec => [][SortsStably]_page
  BY <1>1, OutputInvariant, PTL DEF Spec
<1> QED BY <1>2, PTL DEF ClicksSortStably, SortsStably

-----------------------------------------------------------------------------
(* The drawings                                                            *)

\* The names that n edges away from those of names are.
NextNames(edges, names) == names \cup {e[2] : e \in {d \in edges : d[1] \in names}}

\* The names that can be reached from the start along at most n edges.
Reaches(reached, edges, start) ==
    reached = [n \in Nat |-> IF n = 0 THEN {start}
                             ELSE NextNames(edges, reached[n - 1])]

\* A name is reached by a walk that follows an edge or stays where it is.
Walks(edges, start, n) ==
    {walk \in [0 .. n -> {start} \cup {e[2] : e \in edges}] :
        /\ walk[0] = start
        /\ \A i \in 1 .. n :
              \/ walk[i] = walk[i - 1]
              \/ \E e \in edges : e[1] = walk[i - 1] /\ e[2] = walk[i]}

LEMMA ReachedExists ==
    ASSUME NEW edges, NEW start
    PROVE  \E reached : Reaches(reached, edges, start)
<1> DEFINE names == {start} \cup {e[2] : e \in edges}
           ends(n) == {walk[n] : walk \in Walks(edges, start, n)}
           reached == [n \in Nat |-> ends(n)]
<1>1. ends(0) = {start}
  <2>1. ASSUME NEW walk \in Walks(edges, start, 0)
        PROVE  walk[0] = start
    BY DEF Walks
  <2> DEFINE walk == [i \in 0 .. 0 |-> start]
  <2>2. walk \in Walks(edges, start, 0) /\ walk[0] = start
    BY DEF Walks
  <2> QED BY <2>1, <2>2
<1>2. ASSUME NEW n \in Nat, n # 0
      PROVE  ends(n) = NextNames(edges, ends(n - 1))
  <2>0. n - 1 \in Nat
    BY <1>2
  <2>1. ASSUME NEW walk \in Walks(edges, start, n)
        PROVE  walk[n] \in NextNames(edges, ends(n - 1))
    <3> DEFINE before == [i \in 0 .. n - 1 |-> walk[i]]
    <3>1. /\ walk \in [0 .. n -> names] /\ walk[0] = start
          /\ \A i \in 1 .. n :
                \/ walk[i] = walk[i - 1]
                \/ \E e \in edges : e[1] = walk[i - 1] /\ e[2] = walk[i]
      BY DEF Walks
    <3>2. /\ before \in [0 .. n - 1 -> names] /\ before[0] = start
          /\ before[n - 1] = walk[n - 1]
          /\ \A i \in 1 .. n - 1 : before[i] = walk[i] /\ before[i - 1] = walk[i - 1]
      BY <1>2, <2>0, <3>1
    <3>3. \A i \in 1 .. n - 1 :
              \/ before[i] = before[i - 1]
              \/ \E e \in edges : e[1] = before[i - 1] /\ e[2] = before[i]
      <4>1. \A i \in 1 .. n - 1 : i \in 1 .. n
        BY <2>0
      <4> HIDE DEF before
      <4> QED BY <3>1, <3>2, <4>1
    <3> HIDE DEF before
    <3>4. before \in Walks(edges, start, n - 1)
      BY <3>2, <3>3 DEF Walks
    <3>5. walk[n - 1] \in ends(n - 1)
      BY <3>2, <3>4
    <3>6. \/ walk[n] = walk[n - 1]
          \/ \E e \in edges : e[1] = walk[n - 1] /\ e[2] = walk[n]
      <4>1. n \in 1 .. n
        BY <1>2
      <4> QED BY <3>1, <4>1
    <3> HIDE DEF ends
    <3> QED BY <3>5, <3>6 DEF NextNames
  <2>2. ASSUME NEW before \in Walks(edges, start, n - 1), NEW y \in names,
               \/ y = before[n - 1]
               \/ \E e \in edges : e[1] = before[n - 1] /\ e[2] = y
        PROVE  y \in ends(n)
    <3> DEFINE walk == [i \in 0 .. n |-> IF i = n THEN y ELSE before[i]]
    <3>1. /\ before \in [0 .. n - 1 -> names] /\ before[0] = start
          /\ \A i \in 1 .. n - 1 :
                \/ before[i] = before[i - 1]
                \/ \E e \in edges : e[1] = before[i - 1] /\ e[2] = before[i]
      BY DEF Walks
    <3>2. /\ walk \in [0 .. n -> names] /\ walk[0] = start
          /\ walk[n - 1] = before[n - 1] /\ walk[n] = y
          /\ \A i \in 1 .. n - 1 : walk[i] = before[i] /\ walk[i - 1] = before[i - 1]
      BY <1>2, <2>0, <3>1
    <3> HIDE DEF walk
    <3>3. ASSUME NEW i \in 1 .. n
          PROVE  \/ walk[i] = walk[i - 1]
                 \/ \E e \in edges : e[1] = walk[i - 1] /\ e[2] = walk[i]
      <4>1. i = n \/ i \in 1 .. n - 1
        BY <2>0
      <4>2. CASE i = n
        BY <2>2, <3>2, <4>2
      <4>3. CASE i \in 1 .. n - 1
        BY <3>1, <3>2, <4>3
      <4> QED BY <4>1, <4>2, <4>3
    <3>4. walk \in Walks(edges, start, n)
      BY <3>2, <3>3 DEF Walks
    <3> QED BY <3>2, <3>4
  <2>3. ASSUME NEW y \in NextNames(edges, ends(n - 1))
        PROVE  y \in ends(n)
    <3>1. PICK x \in ends(n - 1) : \/ y = x
                                   \/ \E e \in edges : e[1] = x /\ e[2] = y
      <4> HIDE DEF ends
      <4> QED BY DEF NextNames
    <3>2. PICK before \in Walks(edges, start, n - 1) : x = before[n - 1]
      OBVIOUS
    <3>3. before[n - 1] \in names
      <4>1. n - 1 \in 0 .. n - 1
        BY <2>0
      <4> QED BY <4>1 DEF Walks
    <3>4. y \in names
      <4>1. CASE y = x
        BY <3>2, <3>3, <4>1
      <4>2. CASE \E e \in edges : e[1] = x /\ e[2] = y
        BY <4>2
      <4> QED BY <3>1, <4>1, <4>2
    <3> HIDE DEF ends, names
    <3> QED BY <2>2, <3>1, <3>2, <3>4
  <2>4. ends(n) \subseteq NextNames(edges, ends(n - 1))
    BY <2>1
  <2> HIDE DEF ends
  <2> QED BY <2>3, <2>4
<1> HIDE DEF ends
<1>3. ASSUME NEW n \in Nat
      PROVE  reached[n] = IF n = 0 THEN {start} ELSE NextNames(edges, reached[n - 1])
  <2>1. CASE n = 0
    BY <1>1, <2>1
  <2>2. CASE n # 0
    <3>1. n - 1 \in Nat
      BY <2>2
    <3>2. reached[n] = ends(n) /\ reached[n - 1] = ends(n - 1)
      BY <3>1
    <3> HIDE DEF reached
    <3> QED BY <1>2, <2>2, <3>2
  <2> QED BY <2>1, <2>2
<1>4. Reaches(reached, edges, start)
  <2>1. reached = [n \in Nat |-> reached[n]]
    OBVIOUS
  <2> HIDE DEF reached
  <2> QED BY <1>3, <2>1 DEF Reaches
<1> QED BY <1>4

LEMMA ReachedIs ==
    ASSUME NEW reached, NEW edges, NEW start, Reaches(reached, edges, start)
    PROVE  /\ reached[0] = {start}
           /\ \A n \in Nat : reached[n + 1] = NextNames(edges, reached[n])
<1>1. \A n \in Nat : reached[n] = IF n = 0 THEN {start}
                                  ELSE NextNames(edges, reached[n - 1])
  BY DEF Reaches
<1>2. ASSUME NEW n \in Nat
      PROVE  reached[n + 1] = NextNames(edges, reached[n])
  <2>1. n + 1 \in Nat /\ n + 1 # 0 /\ (n + 1) - 1 = n
    OBVIOUS
  <2>2. reached[n + 1] = NextNames(edges, reached[(n + 1) - 1])
    BY <1>1, <2>1
  <2> QED BY <2>1, <2>2
<1>3. reached[0] = {start}
  BY <1>1
<1> QED BY <1>2, <1>3

\* Nothing but what is drawn is reached.
LEMMA ReachedAreDrawn ==
    ASSUME NEW reached, NEW edges, NEW drawn, NEW start \in drawn,
           \A e \in edges : e[2] \in drawn,
           Reaches(reached, edges, start), NEW n \in Nat
    PROVE  reached[n] \subseteq drawn
<1> DEFINE Wrong == {i \in Nat : ~(reached[i] \subseteq drawn)}
<1> SUFFICES ASSUME Wrong # {} PROVE FALSE
  OBVIOUS
<1>1. PICK i \in Wrong : \A j \in Wrong : i <= j
  <2>1. Wrong \in SUBSET Nat
    OBVIOUS
  <2> HIDE DEF Wrong
  <2> QED BY <2>1, LeastExists
<1>2. reached[0] = {start} /\ \A k \in Nat : reached[k + 1] = NextNames(edges, reached[k])
  BY ReachedIs
<1>3. i \in Nat /\ ~(reached[i] \subseteq drawn)
  OBVIOUS
<1>4. i # 0
  BY <1>2, <1>3
<1>5. i - 1 \in Nat /\ ~(i <= i - 1) /\ (i - 1) + 1 = i
  BY <1>3, <1>4
<1>6. reached[i - 1] \subseteq drawn
  BY <1>1, <1>5
<1>7. reached[i] = NextNames(edges, reached[i - 1])
  BY <1>2, <1>5
<1> QED BY <1>3, <1>6, <1>7 DEF NextNames

\* Each edge that is followed leads further, or nowhere any more.
LEMMA ReachedGrow ==
    ASSUME NEW reached, NEW edges, NEW drawn, NEW start \in drawn,
           IsFiniteSet(drawn), \A e \in edges : e[2] \in drawn,
           Reaches(reached, edges, start), NEW n \in Nat
    PROVE  \/ reached[n + 1] = reached[n]
           \/ Cardinality(reached[n]) >= n + 1
<1> DEFINE Good(i) == \/ reached[i + 1] = reached[i]
                      \/ Cardinality(reached[i]) >= i + 1
           Wrong == {i \in Nat : ~Good(i)}
<1> SUFFICES ASSUME Wrong # {} PROVE FALSE
  OBVIOUS
<1>1. PICK i \in Wrong : \A j \in Wrong : i <= j
  <2>1. Wrong \in SUBSET Nat
    OBVIOUS
  <2> HIDE DEF Wrong
  <2> QED BY <2>1, LeastExists
<1>2. reached[0] = {start} /\ \A k \in Nat : reached[k + 1] = NextNames(edges, reached[k])
  BY ReachedIs
<1>3. i \in Nat /\ ~Good(i)
  OBVIOUS
<1>4. i # 0
  <2>1. Cardinality(reached[0]) = 1
    BY <1>2, FS_Singleton
  <2> QED BY <1>3, <2>1
<1>5. i - 1 \in Nat /\ ~(i <= i - 1) /\ (i - 1) + 1 = i
  BY <1>3, <1>4
<1>6. Good(i - 1)
  <2> HIDE DEF Good
  <2> QED BY <1>1, <1>5
<1>7. reached[i] # reached[i - 1]
  BY <1>2, <1>3, <1>5
<1>8. Cardinality(reached[i - 1]) >= i
  BY <1>5, <1>6, <1>7
<1>9. reached[i - 1] \subseteq reached[i]
  BY <1>2, <1>5 DEF NextNames
<1>10. IsFiniteSet(reached[i])
  BY <1>3, ReachedAreDrawn, FS_Subset
<1>11. /\ Cardinality(reached[i - 1]) < Cardinality(reached[i])
       /\ Cardinality(reached[i - 1]) \in Nat /\ Cardinality(reached[i]) \in Nat
  BY <1>7, <1>9, <1>10, FS_Subset, FS_CardinalityType
<1> QED BY <1>3, <1>8, <1>11

\* When as many edges have been followed as there are names, no more are reached.
LEMMA ReachedAreClosed ==
    ASSUME NEW reached, NEW edges, NEW drawn, NEW start \in drawn,
           IsFiniteSet(drawn), \A e \in edges : e[2] \in drawn,
           Reaches(reached, edges, start)
    PROVE  LET names == reached[Cardinality(drawn)]
           IN  /\ names \subseteq drawn /\ start \in names
               /\ \A e \in edges : e[1] \in names => e[2] \in names
<1> DEFINE N == Cardinality(drawn)
           names == reached[N]
<1>1. N \in Nat
  BY FS_CardinalityType
<1>2. names \subseteq drawn
  BY <1>1, ReachedAreDrawn
<1>3. IsFiniteSet(names) /\ Cardinality(names) \in Nat /\ Cardinality(names) <= N
  BY <1>2, FS_Subset, FS_CardinalityType
<1>4. reached[N + 1] = reached[N] \/ Cardinality(reached[N]) >= N + 1
  BY <1>1, ReachedGrow
<1>5. reached[N + 1] = names
  BY <1>1, <1>3, <1>4
<1>6. reached[N + 1] = NextNames(edges, names)
  BY <1>1, ReachedIs
<1>7. start \in names
  <2> DEFINE Wrong == {i \in Nat : start \notin reached[i]}
  <2> SUFFICES ASSUME Wrong # {} PROVE FALSE
    BY <1>1
  <2>1. PICK i \in Wrong : \A j \in Wrong : i <= j
    <3>1. Wrong \in SUBSET Nat
      OBVIOUS
    <3> HIDE DEF Wrong
    <3> QED BY <3>1, LeastExists
  <2>2. reached[0] = {start} /\ \A k \in Nat : reached[k + 1] = NextNames(edges, reached[k])
    BY ReachedIs
  <2>3. i \in Nat /\ start \notin reached[i]
    OBVIOUS
  <2>4. i # 0
    BY <2>2, <2>3
  <2>5. i - 1 \in Nat /\ ~(i <= i - 1) /\ (i - 1) + 1 = i
    BY <2>3, <2>4
  <2>6. start \in reached[i - 1]
    BY <2>1, <2>5
  <2> QED BY <2>2, <2>3, <2>5, <2>6 DEF NextNames
<1> QED BY <1>2, <1>5, <1>6, <1>7 DEF NextNames

LEMMA ImageIsFinite ==
    ASSUME NEW S, IsFiniteSet(S), NEW f, DOMAIN f = S
    PROVE  IsFiniteSet({f[a] : a \in S})
<1> DEFINE T == {f[a] : a \in S}
           h == [a \in S |-> f[a]]
<1>1. h \in Surjection(S, T)
  BY DEF Surjection
<1> QED BY <1>1, FS_Surjection

\* Every name of a drawing is reached when the graph is one of calls.
LEMMA DrawingIsConnected ==
    ASSUME NEW p, NEW recursing, IsProfile(p, recursing),
           NEW g, IsCallGraphOf(g, DOMAIN p),
           NEW reached, Reaches(reached, WriteNodes(p, g), ServerName)
    PROVE  LET drawn == {n.name : n \in WriteNodeColors(p, Traversed(g))}
           IN  reached[Cardinality(drawn)] = drawn
<1> DEFINE edges == WriteNodes(p, g)
           drawn == {n.name : n \in WriteNodeColors(p, Traversed(g))}
           names == reached[Cardinality(drawn)]
           addresses == DOMAIN p \cup {Sentinel}
           found == {a \in addresses : NodeName(p, a) \in names}
<1>1. g \subseteq addresses \X DOMAIN p
  BY DEF IsCallGraphOf
<1>2. Traversed(g) \subseteq DOMAIN p
  BY <1>1 DEF Traversed
<1>3. drawn = {ServerName} \cup {p[a].name : a \in Traversed(g)}
  <2> DEFINE node(a) ==
            [name |-> p[a].name,
             ratio |-> Rounded(p[a].self, MaxTime(p, Traversed(g)), 100000),
             shape |-> CASE p[a].type = "public" -> "octagon"
                         [] p[a].type = "native" -> "box"
                         [] p[a].type = "normal" -> "oval"]
             server == [name |-> ServerName, shape |-> "diamond"]
  <2>1. WriteNodeColors(p, Traversed(g)) = {server} \cup {node(a) : a \in Traversed(g)}
    BY DEF WriteNodeColors
  <2>2. server.name = ServerName /\ \A a \in Traversed(g) : node(a).name = p[a].name
    OBVIOUS
  <2> HIDE DEF node, server
  <2> QED BY <2>1, <2>2
<1>4. IsFiniteSet(drawn)
  <2>1. IsFiniteSet(Traversed(g))
    BY <1>2, FS_Subset DEF IsProfile
  <2> DEFINE others == {p[a].name : a \in Traversed(g)}
  <2>2. IsFiniteSet(others)
    <3> DEFINE f == [a \in Traversed(g) |-> p[a].name]
    <3>1. IsFiniteSet({f[a] : a \in Traversed(g)})
      BY <2>1, ImageIsFinite
    <3> QED BY <3>1
  <2>3. IsFiniteSet({ServerName})
    BY FS_Singleton
  <2>4. drawn = {ServerName} \cup others
    BY <1>3
  <2> HIDE DEF drawn, others
  <2> QED BY <2>2, <2>3, <2>4, FS_Union
<1>5. ServerName \in drawn
  BY <1>3
<1>6. ASSUME NEW e \in edges
      PROVE  \E a \in g : /\ a[1] \in addresses /\ a[2] \in Traversed(g)
                          /\ e[1] = NodeName(p, a[1]) /\ e[2] = p[a[2]].name
  BY <1>1 DEF WriteNodes, Traversed
<1>7. ASSUME NEW a \in g
      PROVE  \E e \in edges : e[1] = NodeName(p, a[1]) /\ e[2] = NodeName(p, a[2])
  <2>1. a[2] \in DOMAIN p /\ a[2] # Sentinel
    BY <1>1 DEF IsProfile
  <2>2. NodeName(p, a[2]) = p[a[2]].name
    BY <2>1 DEF NodeName
  <2>3. <<NodeName(p, a[1]), p[a[2]].name, p[a[2]].type>> \in edges
    BY DEF WriteNodes
  <2> HIDE DEF edges
  <2> QED BY <2>2, <2>3
<1> HIDE DEF edges, drawn
<1>8. \A e \in edges : e[2] \in drawn
  BY <1>3, <1>6
<1>9. Reaches(reached, edges, ServerName)
  BY DEF edges
<1>10. /\ names \subseteq drawn /\ ServerName \in names
       /\ \A e \in edges : e[1] \in names => e[2] \in names
  BY <1>4, <1>5, <1>8, <1>9, ReachedAreClosed
<1> HIDE DEF names
<1>11. Sentinel \in found
  BY <1>10 DEF NodeName
<1>12. ASSUME NEW a \in g, a[1] \in found
       PROVE  a[2] \in found
  <2>1. PICK e \in edges : e[1] = NodeName(p, a[1]) /\ e[2] = NodeName(p, a[2])
    BY <1>7
  <2>2. NodeName(p, a[1]) \in names
    BY <1>12
  <2>3. NodeName(p, a[2]) \in names
    BY <1>10, <2>1, <2>2
  <2>4. a[2] \in addresses
    BY <1>1
  <2> QED BY <2>3, <2>4
<1>13. found \in SUBSET addresses
  OBVIOUS
<1>14. Traversed(g) \subseteq found
  <2> HIDE DEF found
  <2> QED BY <1>11, <1>12, <1>13 DEF IsCallGraphOf, addresses
<1>15. ASSUME NEW a \in Traversed(g)
       PROVE  p[a].name \in names
  <2>1. a \in DOMAIN p /\ a # Sentinel
    BY <1>2 DEF IsProfile
  <2>2. NodeName(p, a) \in names
    BY <1>14
  <2> QED BY <2>1, <2>2 DEF NodeName
<1>16. drawn \subseteq names
  BY <1>3, <1>10, <1>15
<1> QED BY <1>10, <1>16 DEF drawn, names

\* A finite set of numbers has a largest one.
LEMMA LargestExists ==
    ASSUME NEW S \in SUBSET Int, IsFiniteSet(S), S # {}
    PROVE  \E x \in S : \A y \in S : x >= y
<1> DEFINE W == {s \in SUBSET S : s # {} /\ ~\E x \in s : \A y \in s : x >= y}
<1> SUFFICES ASSUME W # {} PROVE FALSE
  OBVIOUS
<1>1. W \in SUBSET (SUBSET S)
  OBVIOUS
<1>2. PICK s \in W : \A a \in s : s \ {a} \notin W
  <2> HIDE DEF W
  <2> QED BY <1>1, SmallestExists
<1>3. s \in SUBSET S /\ s # {} /\ ~\E x \in s : \A y \in s : x >= y
  OBVIOUS
<1>4. PICK a \in s : a \in Int
  BY <1>3
<1>5. s \ {a} \in SUBSET S /\ s \ {a} \notin W
  BY <1>2, <1>3
<1>6. CASE s \ {a} = {}
  <2>1. \A y \in s : a >= y
    BY <1>4, <1>6
  <2> QED BY <1>3, <2>1
<1>7. CASE s \ {a} # {}
  <2>1. PICK x \in s \ {a} : \A y \in s \ {a} : x >= y
    BY <1>5, <1>7
  <2>2. x \in Int /\ \A y \in s : y \in Int
    BY <1>3
  <2>3. CASE x >= a
    <3>1. \A y \in s : x >= y
      BY <2>1, <2>3
    <3> QED BY <1>3, <2>1, <3>1
  <2>4. CASE ~(x >= a)
    <3>1. \A y \in s : a >= y
      <4> SUFFICES ASSUME NEW y \in s, y # a PROVE a >= y
        BY <1>4
      <4>1. x >= y
        BY <2>1
      <4> QED BY <1>4, <2>2, <2>4, <4>1
    <3> QED BY <1>3, <1>4, <3>1
  <2> QED BY <2>3, <2>4
<1> QED BY <1>6, <1>7

LEMMA MaxIs ==
    ASSUME NEW S \in SUBSET Int, IsFiniteSet(S), S # {}
    PROVE  Max(S) \in S /\ \A y \in S : Max(S) >= y
BY LargestExists DEF Max

\* The ratio of a function to the hottest one.
LEMMA RatioIs ==
    ASSUME NEW s \in Nat, NEW m \in Nat \ {0}, s <= m
    PROVE  /\ Rounded(s, m, 100000).value \in Int
           /\ Rounded(s, m, 100000).value <= 100000
           /\ s = m => Rounded(s, m, 100000).value = 100000
<1> DEFINE v == Rounded(s, m, 100000).value
           x == 2 * s * 100000 + m
           y == 2 * m
<1>1. v = x \div y /\ v \in Int
  BY RoundedIs
<1>2. x \in Nat /\ y \in Nat /\ y > 0 /\ x = 200000 * s + m
  OBVIOUS
<1> HIDE DEF v
<1>3. y * v <= x /\ x < y * v + y
  <2> HIDE DEF x, y
  <2>1. \A a \in Nat, b \in Nat : b > 0 =>
            b * (a \div b) <= a /\ a < b * (a \div b) + b
    OBVIOUS
  <2> QED BY <1>1, <1>2, <2>1
<1>4. y * v = 2 * (m * v) /\ m * v \in Int
  BY <1>1
<1> DEFINE q == m * v
<1>5. 2 * q <= 200000 * s + m /\ 200000 * s + m < 2 * q + 2 * m /\ q \in Int
  BY <1>2, <1>3, <1>4
<1> HIDE DEF x, y
<1>6. ASSUME v >= 100001
      PROVE  FALSE
  <2> DEFINE d == v - 100001
             k == 100001
  <2>1. d \in Nat /\ k \in Int /\ v = k + d /\ m * d \in Nat /\ m \in Int
    BY <1>1, <1>6
  <2>2. m * k = 100001 * m
    OBVIOUS
  <2> HIDE DEF d, k
  <2>3. q = m * k + m * d
    BY <2>1, Distributive
  <2> HIDE DEF q
  <2> QED BY <1>5, <2>1, <2>2, <2>3
<1>7. ASSUME s = m, v <= 99999
      PROVE  FALSE
  <2> DEFINE d == 99999 - v
             k == 99999
  <2>1. d \in Nat /\ v \in Int /\ k = v + d /\ m * d \in Nat /\ m \in Int
    BY <1>1, <1>7
  <2>2. m * k = 99999 * m
    OBVIOUS
  <2> HIDE DEF d, k
  <2>3. m * k = q + m * d
    BY <2>1, Distributive
  <2> HIDE DEF q
  <2> QED BY <1>5, <1>7, <2>1, <2>2, <2>3
<1> QED BY <1>1, <1>6, <1>7 DEF v

\* The functions of a drawing and their ratios.
LEMMA DrawingHasHottest ==
    ASSUME NEW p, NEW recursing, IsProfile(p, recursing),
           NEW g, IsCallGraphOf(g, DOMAIN p)
    PROVE  LET ratios == {n.ratio : n \in {m \in WriteNodeColors(p, Traversed(g)) :
                                               m.shape # "diamond"}}
           IN  NaN \notin ratios /\ ratios # {} =>
                   Max({r.value : r \in ratios}) = 100000
<1> DEFINE nodes == Traversed(g)
           m == MaxTime(p, nodes)
           ratio(a) == Rounded(p[a].self, m, 100000)
           ratios == {n.ratio : n \in {d \in WriteNodeColors(p, Traversed(g)) :
                                           d.shape # "diamond"}}
           times == {0} \cup {p[a].self : a \in nodes}
           values == {r.value : r \in ratios}
<1>1. nodes \subseteq DOMAIN p
  BY DEF IsCallGraphOf, Traversed
<1>2. ASSUME NEW a \in nodes
      PROVE  p[a].type \in {"public", "native", "normal"} /\ p[a].self \in Nat
  BY <1>1 DEF IsProfile, FunctionStatistics
<1> HIDE DEF nodes
<1>3. ratios = {ratio(a) : a \in nodes}
  <2> DEFINE shape(a) == CASE p[a].type = "public" -> "octagon"
                           [] p[a].type = "native" -> "box"
                           [] p[a].type = "normal" -> "oval"
             node(a) == [name |-> p[a].name, ratio |-> ratio(a), shape |-> shape(a)]
             server == [name |-> ServerName, shape |-> "diamond"]
  <2>1. WriteNodeColors(p, Traversed(g)) = {server} \cup {node(a) : a \in nodes}
    BY DEF WriteNodeColors, nodes
  <2>2. \A a \in nodes : shape(a) # "diamond"
    BY <1>2
  <2> HIDE DEF ratio, shape
  <2>3. \A a \in nodes : node(a).shape # "diamond" /\ node(a).ratio = ratio(a)
    BY <2>2
  <2>4. server.shape = "diamond"
    OBVIOUS
  <2> HIDE DEF node, server
  <2>5. {d \in WriteNodeColors(p, Traversed(g)) : d.shape # "diamond"}
            = {node(a) : a \in nodes}
    BY <2>1, <2>3, <2>4
  <2> QED BY <2>3, <2>5
<1>4. IsFiniteSet(nodes)
  BY <1>1, FS_Subset DEF IsProfile
<1>5. m \in times /\ \A a \in nodes : m >= p[a].self
  <2>1. IsFiniteSet({p[a].self : a \in nodes})
    <3> DEFINE f == [a \in nodes |-> p[a].self]
    <3>1. IsFiniteSet({f[a] : a \in nodes})
      BY <1>4, ImageIsFinite
    <3> QED BY <3>1
  <2>2. IsFiniteSet({0})
    BY FS_Singleton
  <2>3. IsFiniteSet(times)
    BY <2>1, <2>2, FS_Union
  <2>4. times \in SUBSET Int /\ times # {}
    BY <1>2
  <2>5. m = Max(times)
    BY DEF MaxTime
  <2> QED BY <2>3, <2>4, <2>5, MaxIs
<1>6. m \in Nat
  BY <1>2, <1>5
<1> SUFFICES ASSUME NaN \notin ratios, ratios # {}
             PROVE  Max(values) = 100000
  OBVIOUS
<1>7. m # 0
  BY <1>3 DEF Rounded
<1>8. PICK a \in nodes : p[a].self = m
  BY <1>5, <1>7
<1> HIDE DEF m, ratios
<1>9. values = {ratio(b).value : b \in nodes}
  BY <1>3
<1>10. \A b \in nodes : ratio(b).value \in Int /\ ratio(b).value <= 100000
  BY <1>2, <1>5, <1>6, <1>7, RatioIs
<1>11. ratio(a).value = 100000
  BY <1>6, <1>7, <1>8, RatioIs
<1> HIDE DEF ratio, values
<1>12. /\ values \in SUBSET Int /\ 100000 \in values
       /\ \A v \in values : v <= 100000
  BY <1>8, <1>9, <1>10, <1>11
<1>13. IsFiniteSet(values)
  <2> DEFINE f == [b \in nodes |-> ratio(b).value]
  <2>1. IsFiniteSet({f[b] : b \in nodes})
    BY <1>4, ImageIsFinite
  <2> QED BY <1>9, <2>1
<1>14. Max(values) \in values /\ Max(values) >= 100000
  BY <1>12, <1>13, MaxIs
<1> QED BY <1>12, <1>14 DEF values, ratios

\* Every report that is on the disk makes sense by itself: the columns of a table
\* fit together, a duration is the time that the script has run, every function of
\* a drawing can be reached, and the hottest one has the ratio 1.
THEOREM ReportsAlwaysSound == Spec => []ReportsAreSound
<1>1. ContentsInv => RowsAreConsistent
  <2> SUFFICES ASSUME ContentsInv, NEW k \in Tables, NEW percent \in {4, 8}
               PROVE  /\ PercentagesFit(files[k].rows, percent)
                      /\ \/ Measured[files[k].measured].recursing
                         \/ AveragesFit(files[k].rows, percent)
    BY DEF RowsAreConsistent
  <2> DEFINE n == files[k].measured
             p == Measured[n].profile
  <2>1. n \in DOMAIN Measured /\ files[k].rows = TableRows(p)
    BY DEF Tables, ContentsInv
  <2>2. IsProfile(p, Measured[n].recursing) /\ Measured[n].recursing \in BOOLEAN
    BY <2>1, ProfilesAre, OutputAssumption DEF OutputAssumption
  <2> HIDE DEF p
  <2>3. /\ PercentagesFit(TableRows(p), percent)
        /\ Measured[n].recursing \/ AveragesFit(TableRows(p), percent)
    BY <2>2, TableIsConsistent
  <2> QED BY <2>1, <2>3
<1>2. ASSUME ContentsInv, NEW k \in DOMAIN files, files[k].writer = "dot"
      PROVE  \E p, g, recursing :
                 /\ IsProfile(p, recursing) /\ IsCallGraphOf(g, DOMAIN p)
                 /\ files[k].edges = WriteNodes(p, g)
                 /\ files[k].nodes = WriteNodeColors(p, Traversed(g))
  <2>1. files[k].measured \in DOMAIN Measured
    BY <1>2 DEF ContentsInv
  <2> DEFINE m == Measured[files[k].measured]
  <2>2. IsProfile(m.profile, m.recursing) /\ IsCallGraphOf(m.graph, DOMAIN m.profile)
    BY <2>1, OutputAssumption DEF OutputAssumption
  <2>3. /\ files[k].edges = WriteNodes(m.profile, m.graph)
        /\ files[k].nodes = WriteNodeColors(m.profile, Traversed(m.graph))
    BY <1>2 DEF ContentsInv
  <2> QED BY <2>2, <2>3
<1>3. ContentsInv => GraphIsConnected
  <2> SUFFICES ASSUME ContentsInv, NEW k \in DOMAIN files, files[k].writer = "dot"
               PROVE  LET drawn == {n.name : n \in files[k].nodes}
                          reached == CHOOSE f : Reaches(f, files[k].edges, ServerName)
                      IN  reached[Cardinality(drawn)] = drawn
    BY DEF GraphIsConnected, Reaches, NextNames
  <2> DEFINE reached == CHOOSE f : Reaches(f, files[k].edges, ServerName)
  <2>1. Reaches(reached, files[k].edges, ServerName)
    BY ReachedExists
  <2> HIDE DEF reached
  <2>2. PICK p, g, recursing :
                 /\ IsProfile(p, recursing) /\ IsCallGraphOf(g, DOMAIN p)
                 /\ files[k].edges = WriteNodes(p, g)
                 /\ files[k].nodes = WriteNodeColors(p, Traversed(g))
    BY <1>2
  <2> QED BY <2>1, <2>2, DrawingIsConnected DEF reached
<1>4. ContentsInv => HottestIsRed
  <2> SUFFICES ASSUME ContentsInv, NEW k \in DOMAIN files, files[k].writer = "dot"
               PROVE  LET ratios == {n.ratio : n \in {m \in files[k].nodes :
                                                          m.shape # "diamond"}}
                      IN  NaN \notin ratios /\ ratios # {} =>
                              Max({r.value : r \in ratios}) = 100000
    BY DEF HottestIsRed
  <2>1. PICK p, g, recursing :
                 /\ IsProfile(p, recursing) /\ IsCallGraphOf(g, DOMAIN p)
                 /\ files[k].nodes = WriteNodeColors(p, Traversed(g))
    BY <1>2
  <2> QED BY <2>1, DrawingHasHottest
<1>5. ContentsInv /\ DurationsAreRight => ReportsAreSound
  BY <1>1, <1>3, <1>4 DEF ReportsAreSound
<1> QED BY <1>5, OutputInvariant, DurationsAlwaysRight, PTL

-----------------------------------------------------------------------------
(* The settings                                                            *)

\* The lines that give an option a value.
ValuesIn(file, name) ==
    {i \in DOMAIN file : file[i].name = name /\ file[i].words # <<>>}

LEMMA MinIs ==
    ASSUME NEW S \in SUBSET Nat, S # {}
    PROVE  Min(S) \in S
BY LeastExists DEF Min

\* An option that has the same values in two files, under whatever names.
SameValues(file, name, other, newName) ==
    /\ ValuesIn(file, name) = ValuesIn(other, newName)
    /\ \A i \in ValuesIn(file, name) : /\ file[i].words = other[i].words
                                       /\ file[i].spaced = other[i].spaced

\* An option has the value of one of its lines.
HasValueOf(file, name) ==
    /\ name \in DOMAIN ReadFromStream(file) <=> ValuesIn(file, name) # {}
    /\ ValuesIn(file, name) # {} =>
          \E i \in ValuesIn(file, name) :
             /\ i = Min(ValuesIn(file, name))
             /\ ReadFromStream(file)[name]
                   = [words |-> file[i].words, spaced |-> file[i].spaced]

LEMMA OptionIs ==
    ASSUME NEW L, NEW file \in Seq(L), NEW name
    PROVE  HasValueOf(file, name)
<1> DEFINE read(n) == LET line == file[LineOf(file, n)]
                      IN  [words |-> line.words, spaced |-> line.spaced]
           names == {file[i].name : i \in {k \in DOMAIN file : file[k].words # <<>>}}
<1>1. ReadFromStream(file) = [n \in names |-> read(n)]
  BY DEF ReadFromStream
<1>2. name \in names <=> ValuesIn(file, name) # {}
  BY DEF ValuesIn
<1> HIDE DEF read, names
<1>3. DOMAIN ReadFromStream(file) = names
  BY <1>1
<1>4. ASSUME ValuesIn(file, name) # {}
      PROVE  LET i == Min(ValuesIn(file, name))
             IN  /\ i \in ValuesIn(file, name)
                 /\ ReadFromStream(file)[name]
                       = [words |-> file[i].words, spaced |-> file[i].spaced]
  <2> DEFINE i == Min(ValuesIn(file, name))
  <2>1. ValuesIn(file, name) \in SUBSET Nat
    BY DEF ValuesIn
  <2>2. i \in ValuesIn(file, name)
    BY <1>4, <2>1, MinIs
  <2>3. LineOf(file, name) = i
    BY DEF LineOf, ValuesIn
  <2>4. ReadFromStream(file)[name] = read(name)
    BY <1>1, <1>2, <1>4
  <2> HIDE DEF i
  <2>5. read(name) = [words |-> file[i].words, spaced |-> file[i].spaced]
    BY <2>3 DEF read
  <2> QED BY <2>2, <2>4, <2>5 DEF i
<1> QED BY <1>2, <1>3, <1>4 DEF HasValueOf

\* Such an option is read alike.
AreSame(f, name, g, newName) ==
    /\ name \in DOMAIN f <=> newName \in DOMAIN g
    /\ name \in DOMAIN f => f[name] = g[newName]

LEMMA OptionsAreSame ==
    ASSUME NEW L, NEW file \in Seq(L), NEW name,
           NEW M, NEW other \in Seq(M), NEW newName,
           SameValues(file, name, other, newName)
    PROVE  AreSame(ReadFromStream(file), name, ReadFromStream(other), newName)
<1> DEFINE values == ValuesIn(file, name)
           f == ReadFromStream(file)
           g == ReadFromStream(other)
<1>1. values = ValuesIn(other, newName)
  BY DEF SameValues
<1>2. name \in DOMAIN f <=> values # {}
  BY OptionIs DEF HasValueOf
<1>3. newName \in DOMAIN g <=> values # {}
  BY <1>1, OptionIs DEF HasValueOf
<1>4. ASSUME values # {}
      PROVE  f[name] = g[newName]
  <2>1. PICK i \in values :
            /\ i = Min(values)
            /\ f[name] = [words |-> file[i].words, spaced |-> file[i].spaced]
    BY <1>4, OptionIs DEF HasValueOf
  <2>2. PICK k \in values :
            /\ k = Min(values)
            /\ g[newName] = [words |-> other[k].words, spaced |-> other[k].spaced]
    BY <1>1, <1>4, OptionIs DEF HasValueOf
  <2>3. i = k
    BY <2>1, <2>2
  <2>4. file[i].words = other[i].words /\ file[i].spaced = other[i].spaced
    BY DEF SameValues
  <2> QED BY <2>1, <2>2, <2>3, <2>4
<1> QED BY <1>2, <1>3, <1>4 DEF AreSame

\* An option that a file does not have.
LEMMA NoOption ==
    ASSUME NEW L, NEW file \in Seq(L), NEW name, ValuesIn(file, name) = {}
    PROVE  name \notin DOMAIN ReadFromStream(file)
BY OptionIs DEF HasValueOf

LEMMA ValuesAreSeq ==
    ASSUME NEW file, IsConfig(file), NEW name, name \in DOMAIN ReadFromStream(file)
    PROVE  \E S : ReadFromStream(file)[name].words \in Seq(S)
<1> DEFINE Words == Seq(STRING)
           Line == [name : STRING, words : Seq(Words), spaced : BOOLEAN]
<1>1. file \in Seq(Line)
  BY DEF IsConfig
<1> HIDE DEF Words
<1>2. \A line \in Line : line.words \in Seq(Words)
  OBVIOUS
<1> HIDE DEF Line
<1>3. PICK i \in ValuesIn(file, name) :
          /\ i = Min(ValuesIn(file, name))
          /\ ReadFromStream(file)[name]
                = [words |-> file[i].words, spaced |-> file[i].spaced]
  <2>1. ValuesIn(file, name) # {}
    BY <1>1, OptionIs DEF HasValueOf
  <2>2. PICK L : file \in Seq(L)
    BY <1>1
  <2>3. HasValueOf(file, name)
    BY <2>2, OptionIs
  <2> QED BY <2>1, <2>3 DEF HasValueOf
<1>4. file[i] \in Line
  BY <1>1 DEF ValuesIn
<1> QED BY <1>2, <1>3, <1>4

\* The settings that choose scripts and switch the call graph on.
LEMMA SettingsAre ==
    ASSUME NEW file
    PROVE  LET s == Settings(file)
               options == ReadFromStream(file)
           IN  /\ s.gamemodes
                     = GetString(options, "profiler_gamemodes", Default(<<>>))
               /\ s.filterscripts = GetValues(options, "profiler_filterscripts")
               /\ s.call_graph = GetBool(options, "profiler_callgraph")
               /\ s.old_gamemode = GetBool(options, "profile_gamemode")
               /\ s.old_filterscripts = GetValues(options, "profile_filterscripts")
               /\ s.old_call_graph = GetBool(options, "call_graph")
<1> DEFINE options == ReadFromStream(file)
           Format(name, default) ==
               Text(GetString(options, name, Default(<<default>>)))
           f1 == Format("profiler_outputformat", <<"html">>)
           f2 == Format("profiler_callgraphformat", <<"dot">>)
           f3 == Format("profile_format", <<"html">>)
           f4 == Format("call_graph_format", <<"dot">>)
<1>1. Settings(file) =
        [gamemodes |-> GetString(options, "profiler_gamemodes", Default(<<>>)),
         filterscripts |-> GetValues(options, "profiler_filterscripts"),
         output_format |-> f1,
         call_graph |-> GetBool(options, "profiler_callgraph"),
         call_graph_format |-> f2,
         old_gamemode |-> GetBool(options, "profile_gamemode"),
         old_filterscripts |-> GetValues(options, "profile_filterscripts"),
         old_format |-> f3,
         old_call_graph |-> GetBool(options, "call_graph"),
         old_call_graph_format |-> f4]
  BY DEF Settings
<1> HIDE DEF options, f1, f2, f3, f4
<1> QED BY <1>1 DEF options

\* What becomes of the lines.
LEMMA NewLinesAre ==
    ASSUME NEW path, IsConfig(lines)
    PROVE  LET file == WithNewNames(path)
           IN  /\ \E M : file \in Seq(M)
               /\ DOMAIN file = DOMAIN lines
               /\ \A i \in DOMAIN lines :
                     /\ lines[i].name \notin DOMAIN NewNames => file[i] = lines[i]
                     /\ lines[i].name \in {"profile_filterscripts", "call_graph"} =>
                           /\ file[i].name = NewNames[lines[i].name]
                           /\ file[i].words = lines[i].words
                           /\ file[i].spaced = lines[i].spaced
                     /\ lines[i].name = "profile_gamemode" =>
                           /\ file[i].name = "profiler_gamemodes"
                           /\ file[i].spaced = TRUE
                           /\ file[i].words
                                 = IF /\ lines[i].words # <<>>
                                      /\ lines[i].words[1] = <<"1">>
                                   THEN <<From(path, 3)>> ELSE <<>>
<1> DEFINE words(line) == IF line.words # <<>> /\ line.words[1] = <<"1">>
                          THEN <<From(path, 3)>> ELSE <<>>
           NewName(line) ==
               IF line.name = "profile_gamemode"
               THEN [name |-> NewNames[line.name], spaced |-> TRUE,
                     words |-> words(line)]
               ELSE IF line.name \in DOMAIN NewNames
               THEN [line EXCEPT !.name = NewNames[line.name]]
               ELSE line
           file == WithNewNames(path)
           Lines == [name : STRING, words : Seq(Seq(STRING)), spaced : BOOLEAN]
<1>1. file = [n \in DOMAIN lines |-> NewName(lines[n])]
  BY DEF WithNewNames
<1>2. lines \in Seq(Lines)
  BY DEF IsConfig
<1>3. /\ DOMAIN NewNames = {"profile_gamemode", "profile_filterscripts", "call_graph"}
      /\ NewNames["profile_gamemode"] = "profiler_gamemodes"
  BY DEF NewNames
<1>4. \A i \in DOMAIN lines :
          lines[i] = [name |-> lines[i].name, words |-> lines[i].words,
                      spaced |-> lines[i].spaced]
  <2>1. lines \in Seq(Lines)
    BY <1>2
  <2>2. \A line \in Lines : line = [name |-> line.name, words |-> line.words,
                                   spaced |-> line.spaced]
    <3> DEFINE Words == Seq(Seq(STRING))
    <3>1. Lines = [name : STRING, words : Words, spaced : BOOLEAN]
      OBVIOUS
    <3> HIDE DEF Words, Lines
    <3> QED BY <3>1
  <2> HIDE DEF Lines
  <2>3. \A i \in DOMAIN lines : lines[i] \in Lines
    BY <2>1
  <2> QED BY <2>2, <2>3
<1> HIDE DEF Lines
<1>5. \A i \in DOMAIN lines : file[i] = NewName(lines[i])
  BY <1>1
<1>6. DOMAIN file = DOMAIN lines
  BY <1>1
<1>7. \E M : file \in Seq(M)
  <2> DEFINE M == {NewName(lines[n]) : n \in DOMAIN lines}
  <2>1. DOMAIN lines = 1 .. Len(lines) /\ Len(lines) \in Nat
    BY <1>2
  <2> HIDE DEF NewName
  <2>2. \A n \in 1 .. Len(lines) : NewName(lines[n]) \in M
    BY <2>1
  <2> HIDE DEF M
  <2>3. [n \in 1 .. Len(lines) |-> NewName(lines[n])] \in Seq(M)
    BY <2>1, <2>2
  <2> QED BY <1>1, <2>1, <2>3
<1> HIDE DEF words, file
<1>8. ASSUME NEW i \in DOMAIN lines
      PROVE  /\ lines[i].name \notin DOMAIN NewNames => file[i] = lines[i]
             /\ lines[i].name \in {"profile_filterscripts", "call_graph"} =>
                   /\ file[i].name = NewNames[lines[i].name]
                   /\ file[i].words = lines[i].words
                   /\ file[i].spaced = lines[i].spaced
             /\ lines[i].name = "profile_gamemode" =>
                   /\ file[i].name = "profiler_gamemodes"
                   /\ file[i].spaced = TRUE
                   /\ file[i].words = words(lines[i])
  <2> DEFINE line == lines[i]
  <2>1. file[i] = NewName(line)
    BY <1>5
  <2>2. line = [name |-> line.name, words |-> line.words, spaced |-> line.spaced]
    BY <1>4
  <2> HIDE DEF line
  <2>3. CASE line.name \notin DOMAIN NewNames
    BY <1>3, <2>1, <2>3 DEF line
  <2>4. CASE line.name \in {"profile_filterscripts", "call_graph"}
    <3>1. NewName(line) = [line EXCEPT !.name = NewNames[line.name]]
      BY <1>3, <2>4
    <3>2. /\ NewName(line).name = NewNames[line.name]
          /\ NewName(line).words = line.words
          /\ NewName(line).spaced = line.spaced
      BY <2>2, <3>1
    <3> HIDE DEF NewName
    <3> QED BY <1>3, <2>1, <2>4, <3>2 DEF line
  <2>5. CASE line.name = "profile_gamemode"
    BY <1>3, <2>1, <2>5 DEF line
  <2> QED BY <1>3, <2>3, <2>4, <2>5
<1> QED BY <1>6, <1>7, <1>8 DEF file, words

\* A renamed list or switch has its values under one of its two names.
LEMMA RenamedIs ==
    ASSUME NEW path, IsConfig(lines), NEW old \in {"profile_filterscripts", "call_graph"}
    PROVE  LET new == NewNames[old]
               f == ReadFromStream(lines)
               g == ReadFromStream(WithNewNames(path))
           IN  /\ old \notin DOMAIN g
               /\ old \notin DOMAIN f \/ new \notin DOMAIN f
               /\ new \in DOMAIN g <=> (old \in DOMAIN f \/ new \in DOMAIN f)
               /\ old \in DOMAIN f => g[new] = f[old]
               /\ new \in DOMAIN f => g[new] = f[new]
<1> DEFINE new == NewNames[old]
           file == WithNewNames(path)
           f == ReadFromStream(lines)
           g == ReadFromStream(file)
<1>1. PICK L : lines \in Seq(L)
  BY DEF IsConfig
<1>2. PICK M : file \in Seq(M)
  BY NewLinesAre
<1>3. /\ DOMAIN NewNames = {"profile_gamemode", "profile_filterscripts", "call_graph"}
      /\ NewNames["profile_gamemode"] = "profiler_gamemodes"
      /\ NewNames["profile_filterscripts"] = "profiler_filterscripts"
      /\ NewNames["call_graph"] = "profiler_callgraph"
  BY DEF NewNames
<1>4. /\ new \in {"profiler_filterscripts", "profiler_callgraph"}
      /\ new # "profiler_gamemodes" /\ new \notin DOMAIN NewNames /\ new # old
      /\ \A name \in DOMAIN NewNames : NewNames[name] = new <=> name = old
      /\ \A name \in DOMAIN NewNames : NewNames[name] # old
  BY <1>3
<1>5. /\ DOMAIN file = DOMAIN lines
      /\ \A i \in DOMAIN lines :
            /\ lines[i].name \notin DOMAIN NewNames => file[i] = lines[i]
            /\ lines[i].name \in {"profile_filterscripts", "call_graph"} =>
                  /\ file[i].name = NewNames[lines[i].name]
                  /\ file[i].words = lines[i].words
                  /\ file[i].spaced = lines[i].spaced
            /\ lines[i].name = "profile_gamemode" =>
                  file[i].name = "profiler_gamemodes"
  BY NewLinesAre
<1> HIDE DEF new, file
<1>6. ValuesIn(file, old) = {}
  <2> SUFFICES ASSUME NEW i \in DOMAIN lines, file[i].name = old PROVE FALSE
    BY <1>5 DEF ValuesIn
  <2> QED BY <1>3, <1>4, <1>5
<1>7. ValuesIn(lines, old) = {} \/ ValuesIn(lines, new) = {}
  <2>1. \A m, n \in DOMAIN lines : lines[m].name = old => lines[n].name # new
    BY <1>3 DEF IsConfig, new
  <2> QED BY <2>1 DEF ValuesIn
<1>8. ASSUME NEW i \in DOMAIN lines, lines[i].name \in {old, new}
      PROVE  /\ file[i].name = new /\ file[i].words = lines[i].words
             /\ file[i].spaced = lines[i].spaced
  BY <1>3, <1>4, <1>5, <1>8 DEF new
<1>9. ASSUME NEW i \in DOMAIN lines, file[i].name = new
      PROVE  lines[i].name \in {old, new}
  BY <1>3, <1>4, <1>5, <1>9
<1>10. ValuesIn(file, new) = ValuesIn(lines, old) \cup ValuesIn(lines, new)
  BY <1>5, <1>8, <1>9 DEF ValuesIn
<1>11. old \notin DOMAIN g
  BY <1>2, <1>6, NoOption
<1>12. old \notin DOMAIN f \/ new \notin DOMAIN f
  BY <1>1, <1>7, NoOption
<1>13. ASSUME NEW name \in {old, new}, name \in DOMAIN f
       PROVE  new \in DOMAIN g /\ g[new] = f[name]
  <2>1. ValuesIn(lines, name) # {}
    BY <1>1, <1>13, OptionIs DEF HasValueOf
  <2>2. ValuesIn(lines, name) = ValuesIn(file, new)
    BY <1>7, <1>10, <2>1
  <2>3. \A i \in ValuesIn(lines, name) : /\ lines[i].words = file[i].words
                                         /\ lines[i].spaced = file[i].spaced
    BY <1>8 DEF ValuesIn
  <2>4. SameValues(lines, name, file, new)
    BY <2>2, <2>3 DEF SameValues
  <2> QED BY <1>1, <1>2, <1>13, <2>4, OptionsAreSame DEF AreSame
<1>14. new \in DOMAIN g => old \in DOMAIN f \/ new \in DOMAIN f
  <2>1. new \in DOMAIN g => ValuesIn(file, new) # {}
    BY <1>2, OptionIs DEF HasValueOf
  <2>2. old \in DOMAIN f <=> ValuesIn(lines, old) # {}
    BY <1>1, OptionIs DEF HasValueOf
  <2>3. new \in DOMAIN f <=> ValuesIn(lines, new) # {}
    BY <1>1, OptionIs DEF HasValueOf
  <2> QED BY <1>10, <2>1, <2>2, <2>3
<1> QED BY <1>11, <1>12, <1>13, <1>14 DEF new, file

\* The same of the switch for game modes, which becomes a name.
LEMMA GamemodeIs ==
    ASSUME NEW path, IsConfig(lines)
    PROVE  LET f == ReadFromStream(lines)
               g == ReadFromStream(WithNewNames(path))
           IN  /\ "profile_gamemode" \notin DOMAIN g
               /\ GetBool(f, "profile_gamemode") =>
                      /\ "profiler_gamemodes" \in DOMAIN g
                      /\ g["profiler_gamemodes"] = Default(<<From(path, 3)>>)
               /\ ~GetBool(f, "profile_gamemode") =>
                      /\ "profiler_gamemodes" \in DOMAIN g
                             <=> "profiler_gamemodes" \in DOMAIN f
                      /\ "profiler_gamemodes" \in DOMAIN f =>
                             g["profiler_gamemodes"] = f["profiler_gamemodes"]
<1> DEFINE old == "profile_gamemode"
           new == "profiler_gamemodes"
           file == WithNewNames(path)
           f == ReadFromStream(lines)
           g == ReadFromStream(file)
           one(i) == lines[i].words # <<>> /\ lines[i].words[1] = <<"1">>
<1>1. PICK L : lines \in Seq(L)
  BY DEF IsConfig
<1>2. PICK M : file \in Seq(M)
  BY NewLinesAre
<1>3. /\ DOMAIN NewNames = {old, "profile_filterscripts", "call_graph"}
      /\ NewNames[old] = new
      /\ NewNames["profile_filterscripts"] = "profiler_filterscripts"
      /\ NewNames["call_graph"] = "profiler_callgraph"
  BY DEF NewNames
<1>4. /\ DOMAIN file = DOMAIN lines
      /\ \A i \in DOMAIN lines :
            /\ lines[i].name \notin DOMAIN NewNames => file[i] = lines[i]
            /\ lines[i].name \in {"profile_filterscripts", "call_graph"} =>
                  file[i].name = NewNames[lines[i].name]
            /\ lines[i].name = old =>
                  /\ file[i].name = new
                  /\ file[i].spaced = TRUE
                  /\ file[i].words = IF one(i) THEN <<From(path, 3)>> ELSE <<>>
  <2>1. DOMAIN file = DOMAIN lines
    BY NewLinesAre
  <2>2. ASSUME NEW i \in DOMAIN lines
        PROVE  /\ lines[i].name \notin DOMAIN NewNames => file[i] = lines[i]
               /\ lines[i].name \in {"profile_filterscripts", "call_graph"} =>
                     file[i].name = NewNames[lines[i].name]
    BY NewLinesAre
  <2>3. ASSUME NEW i \in DOMAIN lines, lines[i].name = old
        PROVE  /\ file[i].name = new
               /\ file[i].spaced = TRUE
               /\ file[i].words = IF one(i) THEN <<From(path, 3)>> ELSE <<>>
    BY <2>3, NewLinesAre
  <2> HIDE DEF one, file
  <2> QED BY <2>1, <2>2, <2>3
<1>5. \A m, n \in DOMAIN lines :
          /\ lines[m].name = old => lines[n].name # new
          /\ lines[m].name = old /\ lines[n].name = old => m = n
  BY <1>3 DEF IsConfig
<1> HIDE DEF file, one
<1>6. ValuesIn(file, old) = {}
  <2> SUFFICES ASSUME NEW i \in DOMAIN lines, file[i].name = old PROVE FALSE
    BY <1>4 DEF ValuesIn
  <2> QED BY <1>3, <1>4
<1>7. ASSUME NEW i \in DOMAIN lines
      PROVE  /\ file[i].name = new => lines[i].name \in {old, new}
             /\ lines[i].name = new => file[i] = lines[i]
  BY <1>3, <1>4
<1>8. ASSUME NEW i \in DOMAIN lines, lines[i].name = old, one(i)
      PROVE  new \in DOMAIN g /\ g[new] = Default(<<From(path, 3)>>)
  <2>1. ValuesIn(file, new) = {i}
    <3>1. \A k \in DOMAIN lines : file[k].name = new => k = i
      BY <1>5, <1>7, <1>8
    <3>2. file[i].words = <<From(path, 3)>> /\ file[i].name = new
      BY <1>4, <1>8
    <3>3. \A x : <<x>> # <<>>
      OBVIOUS
    <3> QED BY <1>4, <3>1, <3>2, <3>3 DEF ValuesIn
  <2>2. /\ new \in DOMAIN g
        /\ g[new] = [words |-> file[i].words, spaced |-> file[i].spaced]
    BY <1>2, <2>1, OptionIs DEF HasValueOf
  <2> QED BY <1>4, <1>8, <2>2 DEF Default
<1>9. ASSUME \A i \in DOMAIN lines : lines[i].name = old => ~one(i)
      PROVE  /\ new \in DOMAIN g <=> new \in DOMAIN f
             /\ new \in DOMAIN f => g[new] = f[new]
  <2>1. \A i \in DOMAIN lines : lines[i].name = old => file[i].words = <<>>
    BY <1>4, <1>9
  <2>2. ValuesIn(lines, new) = ValuesIn(file, new)
    BY <1>4, <1>7, <2>1 DEF ValuesIn
  <2>3. \A i \in ValuesIn(lines, new) : /\ lines[i].words = file[i].words
                                        /\ lines[i].spaced = file[i].spaced
    BY <1>7 DEF ValuesIn
  <2>4. SameValues(lines, new, file, new)
    BY <2>2, <2>3 DEF SameValues
  <2>5. AreSame(f, new, g, new)
    BY <1>1, <1>2, <2>4, OptionsAreSame
  <2> QED BY <2>5 DEF AreSame
<1>10. GetBool(f, old) <=> \E i \in DOMAIN lines : lines[i].name = old /\ one(i)
  <2>1. ASSUME NEW i \in DOMAIN lines, lines[i].name = old, lines[i].words # <<>>
        PROVE  old \in DOMAIN f /\ f[old].words = lines[i].words
    <3>1. ValuesIn(lines, old) = {i}
      BY <1>5, <2>1 DEF ValuesIn
    <3>2. /\ old \in DOMAIN f
          /\ f[old] = [words |-> lines[i].words, spaced |-> lines[i].spaced]
      BY <1>1, <3>1, OptionIs DEF HasValueOf
    <3> QED BY <3>2
  <2>2. ASSUME old \in DOMAIN f
        PROVE  \E i \in DOMAIN lines : lines[i].name = old /\ lines[i].words # <<>>
    <3>1. ValuesIn(lines, old) # {}
      BY <1>1, <2>2, OptionIs DEF HasValueOf
    <3> QED BY <3>1 DEF ValuesIn
  <2> HIDE DEF f, old
  <2> QED BY <2>1, <2>2 DEF GetBool, one
<1>11. old \notin DOMAIN g
  BY <1>2, <1>6, NoOption
<1> QED BY <1>8, <1>9, <1>10, <1>11 DEF file

\* A game mode is named by the rest of its path.
LEMMA GamemodeIsNamed ==
    ASSUME NEW path \in DOMAIN Disk, IsGameMode(path)
    PROVE  /\ SplitString(Default(<<From(path, 3)>>)) = {From(path, 3)}
           /\ IsNamed(Disk, path, "gamemodes", From(path, 3))
<1>1. path = <<"gamemodes", "/">> \o From(path, 3)
  BY OutputAssumption DEF OutputAssumption
<1>2. SameFile(Disk, path, path)
  BY DEF SameFile
<1>3. IsNamed(Disk, path, "gamemodes", From(path, 3))
  BY <1>1, <1>2 DEF IsNamed
<1> DEFINE name == From(path, 3)
<1> HIDE DEF name
<1>4. SplitString(Default(<<name>>)) = {name}
  BY DEF SplitString, Default, ToSet
<1> QED BY <1>3, <1>4 DEF name

\* Who uses the old names of the settings that choose scripts and switch the call
\* graph on gets what the new ones give, for every server.cfg that does not mix the
\* two names of a setting (ConfigReader, ShouldBeProfiled, IsCallGraphEnabled).
THEOREM OldNamesAlwaysWork == Spec => []OldNamesWork
<1> DEFINE Inv == lines \in ConfigFiles /\ settings = Settings(lines)
<1>1. Spec => []Inv
  <2>1. Init => Inv
    BY DEF Init
  <2>2. Inv /\ [Next]_vars => Inv'
    BY DEF Next, AmxLoad, ProfilerStart, Run, ProfilerDump, AmxUnload, OpenPage,
           Click, vars
  <2> QED BY <2>1, <2>2, PTL DEF Spec
<1>2. Inv => OldNamesWork
  <2> SUFFICES ASSUME Inv, NEW path \in DOMAIN Disk
               PROVE  LET new == Settings(WithNewNames(path))
                      IN  /\ ShouldBeProfiled(path, settings, Disk)
                                = ShouldBeProfiled(path, new, Disk)
                          /\ IsCallGraphEnabled(settings) = IsCallGraphEnabled(new)
    BY DEF OldNamesWork
  <2> DEFINE f == ReadFromStream(lines)
             g == ReadFromStream(WithNewNames(path))
             new == Settings(WithNewNames(path))
  <2>1. IsConfig(lines)
    BY OutputAssumption DEF OutputAssumption
  <2>2. /\ settings.gamemodes = GetString(f, "profiler_gamemodes", Default(<<>>))
        /\ settings.filterscripts = GetValues(f, "profiler_filterscripts")
        /\ settings.call_graph = GetBool(f, "profiler_callgraph")
        /\ settings.old_gamemode = GetBool(f, "profile_gamemode")
        /\ settings.old_filterscripts = GetValues(f, "profile_filterscripts")
        /\ settings.old_call_graph = GetBool(f, "call_graph")
    BY SettingsAre
  <2>3. /\ new.gamemodes = GetString(g, "profiler_gamemodes", Default(<<>>))
        /\ new.filterscripts = GetValues(g, "profiler_filterscripts")
        /\ new.call_graph = GetBool(g, "profiler_callgraph")
        /\ new.old_gamemode = GetBool(g, "profile_gamemode")
        /\ new.old_filterscripts = GetValues(g, "profile_filterscripts")
        /\ new.old_call_graph = GetBool(g, "call_graph")
    BY SettingsAre
  <2>4. LET old == "profile_filterscripts"
            name == "profiler_filterscripts"
        IN  /\ old \notin DOMAIN g
            /\ old \notin DOMAIN f \/ name \notin DOMAIN f
            /\ name \in DOMAIN g <=> (old \in DOMAIN f \/ name \in DOMAIN f)
            /\ old \in DOMAIN f => g[name] = f[old]
            /\ name \in DOMAIN f => g[name] = f[name]
    <3>1. NewNames["profile_filterscripts"] = "profiler_filterscripts"
      BY DEF NewNames
    <3> QED BY <2>1, <3>1, RenamedIs
  <2>5. LET old == "call_graph"
            name == "profiler_callgraph"
        IN  /\ old \notin DOMAIN g
            /\ old \notin DOMAIN f \/ name \notin DOMAIN f
            /\ name \in DOMAIN g <=> (old \in DOMAIN f \/ name \in DOMAIN f)
            /\ old \in DOMAIN f => g[name] = f[old]
            /\ name \in DOMAIN f => g[name] = f[name]
    <3>1. NewNames["call_graph"] = "profiler_callgraph"
      BY DEF NewNames
    <3> QED BY <2>1, <3>1, RenamedIs
  <2>6. /\ "profile_gamemode" \notin DOMAIN g
        /\ GetBool(f, "profile_gamemode") =>
               /\ "profiler_gamemodes" \in DOMAIN g
               /\ g["profiler_gamemodes"] = Default(<<From(path, 3)>>)
        /\ ~GetBool(f, "profile_gamemode") =>
               /\ "profiler_gamemodes" \in DOMAIN g
                      <=> "profiler_gamemodes" \in DOMAIN f
               /\ "profiler_gamemodes" \in DOMAIN f =>
                      g["profiler_gamemodes"] = f["profiler_gamemodes"]
    BY <2>1, GamemodeIs
  <2> HIDE DEF f, g, new
  <2>7. IsCallGraphEnabled(settings) = IsCallGraphEnabled(new)
    <3>1. /\ IsCallGraphEnabled(settings)
                 <=> GetBool(f, "profiler_callgraph") \/ GetBool(f, "call_graph")
          /\ IsCallGraphEnabled(new)
                 <=> GetBool(g, "profiler_callgraph") \/ GetBool(g, "call_graph")
      BY <2>2, <2>3 DEF IsCallGraphEnabled
    <3>2. GetBool(f, "profiler_callgraph") \/ GetBool(f, "call_graph")
              <=> GetBool(g, "profiler_callgraph") \/ GetBool(g, "call_graph")
      BY <2>5 DEF GetBool
    <3>3. IsCallGraphEnabled(settings) \in BOOLEAN /\ IsCallGraphEnabled(new) \in BOOLEAN
      BY DEF IsCallGraphEnabled
    <3> QED BY <3>1, <3>2, <3>3
  <2> DEFINE FilterscriptNamed(s) ==
                 \E name \in ToSet(s.old_filterscripts \o s.filterscripts) :
                     IsNamed(Disk, path, "filterscripts", name)
             GamemodeNamed(s) ==
                 \/ s.old_gamemode
                 \/ \E name \in SplitString(s.gamemodes) :
                       IsNamed(Disk, path, "gamemodes", name)
  <2>8. settings.old_filterscripts \o settings.filterscripts
            = new.old_filterscripts \o new.filterscripts
    <3>1. settings.old_filterscripts \o settings.filterscripts
              = GetValues(f, "profile_filterscripts")
                    \o GetValues(f, "profiler_filterscripts")
      BY <2>2
    <3>2. new.old_filterscripts \o new.filterscripts
              = <<>> \o GetValues(g, "profiler_filterscripts")
      BY <2>3, <2>4 DEF GetValues
    <3>3. ASSUME NEW name, name \in DOMAIN f
          PROVE  \E S : GetValues(f, name) \in Seq(S)
      BY <2>1, <3>3, ValuesAreSeq DEF f, GetValues
    <3>4. \A S : \A s \in Seq(S) : <<>> \o s = s /\ s \o <<>> = s
      OBVIOUS
    <3>5. <<>> \o <<>> = <<>>
      OBVIOUS
    <3>6. CASE "profile_filterscripts" \in DOMAIN f
      <4>1. PICK S : GetValues(f, "profile_filterscripts") \in Seq(S)
        BY <3>3, <3>6
      <4>2. GetValues(f, "profiler_filterscripts") = <<>>
        BY <2>4, <3>6 DEF GetValues
      <4>3. GetValues(g, "profiler_filterscripts")
                = GetValues(f, "profile_filterscripts")
        BY <2>4, <3>6 DEF GetValues
      <4> QED BY <3>1, <3>2, <3>4, <4>1, <4>2, <4>3
    <3>7. CASE "profile_filterscripts" \notin DOMAIN f
      <4>1. GetValues(f, "profile_filterscripts") = <<>>
        BY <3>7 DEF GetValues
      <4>2. GetValues(g, "profiler_filterscripts")
                = GetValues(f, "profiler_filterscripts")
        BY <2>4, <3>7 DEF GetValues
      <4> QED BY <3>1, <3>2, <4>1, <4>2
    <3> QED BY <3>6, <3>7
  <2>9. IsGameMode(path) => (GamemodeNamed(settings) <=> GamemodeNamed(new))
    <3> SUFFICES ASSUME IsGameMode(path)
                 PROVE  GamemodeNamed(settings) <=> GamemodeNamed(new)
      OBVIOUS
    <3>1. ~new.old_gamemode
      BY <2>3, <2>6 DEF GetBool
    <3>2. CASE GetBool(f, "profile_gamemode")
      <4>1. new.gamemodes = Default(<<From(path, 3)>>)
        BY <2>3, <2>6, <3>2 DEF GetString
      <4>2. GamemodeNamed(new)
        BY <4>1, GamemodeIsNamed
      <4>3. GamemodeNamed(settings)
        BY <2>2, <3>2
      <4> QED BY <4>2, <4>3
    <3>3. CASE ~GetBool(f, "profile_gamemode")
      <4>1. new.gamemodes = settings.gamemodes
        BY <2>2, <2>3, <2>6, <3>3 DEF GetString
      <4>2. ~settings.old_gamemode
        BY <2>2, <3>3
      <4> QED BY <3>1, <4>1, <4>2
    <3> QED BY <3>2, <3>3
  <2>10. ShouldBeProfiled(path, settings, Disk) <=> ShouldBeProfiled(path, new, Disk)
    <3>1. ASSUME NEW s
          PROVE  ShouldBeProfiled(path, s, Disk)
                     <=> \/ IsGameMode(path) /\ GamemodeNamed(s)
                         \/ IsFilterScript(path) /\ FilterscriptNamed(s)
      BY DEF ShouldBeProfiled
    <3>2. FilterscriptNamed(settings) <=> FilterscriptNamed(new)
      BY <2>8
    <3> HIDE DEF GamemodeNamed, FilterscriptNamed
    <3> QED BY <2>9, <3>1, <3>2
  <2>11. /\ ShouldBeProfiled(path, settings, Disk) \in BOOLEAN
         /\ ShouldBeProfiled(path, new, Disk) \in BOOLEAN
    BY DEF ShouldBeProfiled
  <2> QED BY <2>7, <2>10, <2>11 DEF new
<1> QED BY <1>1, <1>2, PTL
=============================================================================
