--------------------------- MODULE DatabaseManager ---------------------------
(***************************************************************************)
(* The bookkeeping of databases in src/spider/spider.py: each round of its   *)
(* loop lists the databases, compares them with the dict it keeps in memory  *)
(* and in database_info.json, reports yesterday's, updates the table          *)
(* db_setting, drops a database when the disk is full, and dumps the dict.    *)
(* Meanwhile consumers create databases, one table after the other, and may  *)
(* be killed in between; people drop databases, and the dashboard sets        *)
(* reserve in db_setting (update_db_reserve of dash.py).                      *)
(* The steps of the spider are its statements on MySQL and on the file.  For  *)
(* it a database is there once it has the table metrics_counter; of the       *)
(* tables made after that one it needs ips_table and kadinfo_root.            *)
(***************************************************************************)
EXTENDS Integers, FiniteSets

CONSTANTS
    Dbs,          \* names of databases
    Yesterday,    \* those whose name ends with yesterday's date
    MaxCreates,   \* bound: databases created
    MaxRemovals,  \* bound: databases dropped by people
    MaxClicks,    \* bound: clicks on reserve or not_reserve
    MaxKills,     \* bound: consumers killed while they create a database
    MaxCrashes    \* bound: crashes, but for those the spider causes itself

ASSUME DbsAssumption == IsFiniteSet(Dbs) /\ Yesterday \subseteq Dbs
ASSUME BoundsAssumption ==
    {MaxCreates, MaxRemovals, MaxClicks, MaxKills, MaxCrashes} \subseteq Nat

VARIABLES
    birth,    \* MySQL: create time of each database's metrics_counter, 0 without
    tables,   \* MySQL: the tables each database has of those made later
    makers,   \* the tables that some consumer is about to make in each database
    setting,  \* MySQL: reserve of each row of db_setting, "none" without a row
    full,     \* more than 88 % of the disk is used
    file,     \* database_info.json: the dict last written
    truncated,\* and whether it has been opened for writing since, hence is empty
    pc,       \* the next statement of the spider, "down" when it is dead
    known,    \* metrics_alarm_database_dict: "unknown", "new" or "done" (report)
    flag,     \* disk_need_clen
    measured, \* the disk was found full by this round
    list,     \* database_list: the births as last listed
    todo,     \* databases the loop of the current stage has yet to visit
    seen,     \* db_setting as selected by the function that is running
    victim,   \* the database being reported or cleaned
    creates, removals, clicks, kills, crashes,   \* history: events so far
    sent,     \* history: whether each database's report was sent ("yes"), or was
              \* sent and lost with the spider before it was in the file ("lost")
    credit,   \* history: the disk was found full since the last DROP
    steady    \* history: databases whose reserve did not change in this round

bases == <<birth, tables, makers>>
saved == <<file, truncated>>
spider == <<pc, known, flag, measured, list, todo, seen, victim>>
events == <<creates, removals, clicks, kills, crashes>>
vars == <<bases, setting, full, saved, spider, events, sent, credit, steady>>

LaterTables == {"ips_table", "kadinfo_root"}
Dict == [Dbs -> {"unknown", "new", "done"}]
NoDict == [d \in Dbs |-> "unknown"]
NoRows == [d \in Dbs |-> "none"]
Stages == {"disk", "list", "check", "forget", "report", "mark", "size", "ip", "detail",
           "online", "select", "update", "clean", "pick", "delete", "drop", "truncate",
           "write", "down"} \cup LaterTables

TypeOK ==
    /\ birth \in [Dbs -> 0..(MaxCreates + Cardinality(Dbs))]
    /\ tables \in [Dbs -> SUBSET LaterTables]
    /\ makers \in [Dbs -> SUBSET LaterTables]
    /\ setting \in [Dbs -> {"none", "false", "true"}]
    /\ {full, flag, measured, credit, truncated} \subseteq BOOLEAN
    /\ file \in Dict
    /\ truncated => pc \in {"write", "down"}
    /\ pc \in Stages
    /\ known \in Dict
    /\ list \in [Dbs -> Nat]
    /\ todo \subseteq Dbs /\ steady \subseteq Dbs
    /\ todo # {} => pc \in {"forget", "report", "mark", "ip", "detail", "online", "select",
                           "update"} \cup LaterTables
    /\ seen \in [Dbs -> {"none", "false", "true"}]
    /\ victim \in Dbs
    /\ {creates, removals, clicks, kills, crashes} \subseteq Nat
    /\ sent \in [Dbs -> {"no", "yes", "lost"}]

Init ==
    /\ birth = [d \in Dbs |-> 0]
    /\ tables = [d \in Dbs |-> {}] /\ makers = [d \in Dbs |-> {}]
    /\ setting = [d \in Dbs |-> "none"]
    /\ full \in BOOLEAN
    /\ file = NoDict /\ truncated = FALSE
    /\ pc = "disk" /\ known = NoDict /\ flag = FALSE /\ measured = FALSE
    /\ list = [d \in Dbs |-> 0] /\ todo = {} /\ seen = NoRows
    /\ victim \in Dbs
    /\ creates = 0 /\ removals = 0 /\ clicks = 0 /\ kills = 0 /\ crashes = 0
    /\ sent = [d \in Dbs |-> "no"] /\ credit = FALSE /\ steady = Dbs
-----------------------------------------------------------------------------
(* Everybody else. *)

\* A consumer or a query of the dashboard (Store.__init__) makes the database and
\* its tables as far as metrics_counter; ips_table is next.
Create(d) ==
    /\ birth[d] = 0 /\ creates < MaxCreates
    /\ creates' = creates + 1
    /\ birth' = [birth EXCEPT ![d] = creates + 1]
    /\ makers' = [makers EXCEPT ![d] = @ \cup {"ips_table"}]
    /\ UNCHANGED <<tables, setting, full, saved, spider, removals, clicks, kills, crashes,
                   sent, credit, steady>>

\* A later CREATE TABLE: fails when the database was dropped, or when the table is
\* there, made by the creator of another incarnation of the database; the
\* constructor is left then.
Extend(d, t) ==
    /\ t \in makers[d]
    /\ IF birth[d] # 0 /\ t \notin tables[d]
       THEN /\ tables' = [tables EXCEPT ![d] = @ \cup {t}]
            /\ makers' = [makers EXCEPT ![d] = (@ \ {t}) \cup
                            IF t = "ips_table" THEN {"kadinfo_root"} ELSE {}]
       ELSE /\ makers' = [makers EXCEPT ![d] = @ \ {t}]
            /\ UNCHANGED tables
    /\ UNCHANGED <<birth, setting, full, saved, spider, events, sent, credit, steady>>

\* A consumer is killed before it has made all tables: nobody makes the rest.
KillMaker(d, t) ==
    /\ t \in makers[d] /\ kills < MaxKills
    /\ kills' = kills + 1
    /\ makers' = [makers EXCEPT ![d] = @ \ {t}]
    /\ UNCHANGED <<birth, tables, setting, full, saved, spider, creates, removals, clicks,
                   crashes, sent, credit, steady>>

\* DROP DATABASE; a consumer that creates it is not told.
DropDatabase(d) ==
    /\ birth' = [birth EXCEPT ![d] = 0]
    /\ tables' = [tables EXCEPT ![d] = {}]
    /\ sent' = [sent EXCEPT ![d] = "no"]
    /\ UNCHANGED makers

Remove(d) ==
    /\ birth[d] # 0 /\ removals < MaxRemovals
    /\ removals' = removals + 1
    /\ DropDatabase(d)
    /\ UNCHANGED <<setting, full, saved, spider, creates, clicks, kills, crashes, credit,
                   steady>>

\* update_db_reserve of the dashboard; without a row it updates nothing.
Click(d, v) ==
    /\ setting[d] \notin {"none", v} /\ clicks < MaxClicks
    /\ clicks' = clicks + 1
    /\ setting' = [setting EXCEPT ![d] = v]
    /\ steady' = steady \ {d}
    /\ UNCHANGED <<bases, full, saved, spider, creates, removals, kills, crashes, sent,
                   credit>>

DiskChanges ==
    /\ full' = ~full
    /\ UNCHANGED <<bases, setting, saved, spider, events, sent, credit, steady>>
-----------------------------------------------------------------------------
(* A round of the spider. *)

CheckDiskFree ==
    /\ pc = "disk"
    /\ measured' = full
    /\ flag' = (flag \/ full) /\ credit' = (credit \/ full)
    /\ steady' = Dbs
    /\ pc' = "list"
    /\ UNCHANGED <<bases, setting, full, saved, known, list, todo, seen, victim, events,
                   sent>>

DatabaseTime ==
    /\ pc = "list"
    /\ list' = birth
    /\ pc' = "check"
    /\ UNCHANGED <<bases, setting, full, saved, known, flag, measured, todo, seen,
                   victim, events, sent, credit, steady>>

Listed == {d \in Dbs : list[d] # 0}

\* check_database: databases that are new, then those that are gone.
CheckDatabase ==
    /\ pc = "check"
    /\ known' = [d \in Dbs |-> IF d \in Listed /\ known[d] = "unknown" THEN "new" ELSE known[d]]
    /\ todo' = {d \in Dbs \ Listed : known[d] # "unknown"}
    /\ pc' = "forget"
    /\ UNCHANGED <<bases, setting, full, saved, flag, measured, list, seen, victim,
                   events, sent, credit, steady>>

\* DELETE FROM db_setting for each database that is gone; at the end they leave
\* the dict, and at 1:00 UTC check_yesterday_db follows.
Forget ==
    /\ pc = "forget"
    /\ \/ \E d \in todo :
             /\ setting' = [setting EXCEPT ![d] = "none"]
             /\ todo' = todo \ {d}
             /\ UNCHANGED <<pc, known>>
       \/ /\ todo = {}
          /\ known' = [d \in Dbs |-> IF d \in Listed THEN known[d] ELSE "unknown"]
          /\ \/ pc' = "report" /\ todo' = {d \in Listed \cap Yesterday : known[d] = "new"}
             \/ pc' = "size" /\ UNCHANGED todo
          /\ UNCHANGED setting
    /\ UNCHANGED <<bases, full, saved, flag, measured, list, seen, victim, events, sent,
                   credit, steady>>

\* do_sumarize_report of a database, and its report is sent.
Report ==
    /\ pc = "report"
    /\ \/ \E d \in todo :
             /\ birth[d] # 0 /\ "ips_table" \in tables[d]
             /\ sent' = [sent EXCEPT ![d] = "yes"]
             /\ victim' = d /\ pc' = "mark"
       \/ todo = {} /\ pc' = "size" /\ UNCHANGED <<sent, victim>>
    /\ UNCHANGED <<bases, setting, full, saved, known, flag, measured, list, todo, seen,
                   events, credit, steady>>

\* A database to report on that was dropped meanwhile is made again by its Store,
\* as far as metrics_counter, ...
Remake ==
    /\ pc = "report"
    /\ \E d \in todo :
          /\ birth[d] = 0
          /\ birth' = [birth EXCEPT ![d] = MaxCreates + 1]
          /\ victim' = d /\ pc' = "ips_table"
    /\ UNCHANGED <<tables, makers, setting, full, saved, known, flag, measured, list, todo,
                   seen, events, sent, credit, steady>>

\* ... and then the later tables; the report follows.
RemakeTable ==
    /\ pc \in LaterTables /\ birth[victim] # 0 /\ pc \notin tables[victim]
    /\ tables' = [tables EXCEPT ![victim] = @ \cup {pc}]
    /\ pc' = IF pc = "ips_table" THEN "kadinfo_root" ELSE "report"
    /\ UNCHANGED <<birth, makers, setting, full, saved, known, flag, measured, list, todo,
                   seen, victim, events, sent, credit, steady>>

\* Mutant: done_report is not set.
MarkForgotten ==
    /\ pc = "mark"
    /\ todo' = todo \ {victim}
    /\ pc' = "report"
    /\ UNCHANGED <<bases, setting, full, saved, known, flag, measured, list, seen,
                   victim, events, sent, credit, steady>>

Mark ==
    /\ pc = "mark"
    /\ known' = [known EXCEPT ![victim] = "done"]
    /\ todo' = todo \ {victim}
    /\ pc' = "report"
    /\ UNCHANGED <<bases, setting, full, saved, flag, measured, list, seen, victim,
                   events, sent, credit, steady>>

Existing == {d \in Dbs : birth[d] # 0}

\* database_detailed_info: the sizes of the databases, then the number of rows of
\* their ips_table, ...
Sizes ==
    /\ pc = "size"
    /\ todo' = Existing
    /\ pc' = "ip"
    /\ UNCHANGED <<bases, setting, full, saved, known, flag, measured, list, seen, victim,
                   events, sent, credit, steady>>

IpCounts ==
    /\ pc = "ip"
    /\ todo' = {d \in todo : "ips_table" \in tables[d]}
    /\ pc' = "detail"
    /\ UNCHANGED <<bases, setting, full, saved, known, flag, measured, list, seen, victim,
                   events, sent, credit, steady>>

\* ... then the databases, each of which must be among both, ...
DetailedInfo ==
    /\ pc = "detail" /\ Existing \subseteq todo
    /\ todo' = Existing
    /\ pc' = "online"
    /\ UNCHANGED <<bases, setting, full, saved, known, flag, measured, list, seen, victim,
                   events, sent, credit, steady>>

\* ... then the number of nodes in kadinfo_root of the 15 youngest.
Latest == {d \in todo : Cardinality({e \in todo : birth[e] > birth[d]}) < 15}
Countable == {d \in Existing : "kadinfo_root" \in tables[d]}

OnlineSizes ==
    /\ pc = "online" /\ Latest \subseteq Countable
    /\ pc' = "select"
    /\ UNCHANGED <<bases, setting, full, saved, known, flag, measured, list, todo, seen,
                   victim, events, sent, credit, steady>>

Select(from, to) ==
    /\ pc = from
    /\ seen' = setting
    /\ pc' = to
    /\ UNCHANGED <<bases, setting, full, saved, known, flag, measured, list, todo,
                   victim, events, sent, credit, steady>>

\* database_setting_update: SELECT, then one INSERT or UPDATE per database; the
\* UPDATE leaves reserve alone, the INSERT leaves it to its default.
SettingSelect == Select("select", "update")

\* Mutant: the function returns before its loop.
SettingUpdateOnly ==
    /\ pc = "update"
    /\ pc' = "clean"
    /\ UNCHANGED <<bases, setting, full, saved, known, flag, measured, list, todo, seen,
                   victim, events, sent, credit, steady>>

SettingUpdate ==
    /\ pc = "update"
    /\ \/ \E d \in todo :
             /\ setting' = [setting EXCEPT ![d] = IF seen[d] = "none" THEN "false" ELSE @]
             /\ todo' = todo \ {d}
             /\ UNCHANGED <<pc, seen>>
       \/ todo = {} /\ pc' = "clean" /\ seen' = NoRows /\ UNCHANGED <<setting, todo>>
    /\ UNCHANGED <<bases, full, saved, known, flag, measured, list, victim, events, sent,
                   credit, steady>>

\* database_clean: SELECT, then the first database of the list that is not
\* reserved; a database without a row is a KeyError.
CleanSelect == flag /\ Select("clean", "pick")

NoClean ==
    /\ pc = "clean" /\ ~flag
    /\ pc' = "truncate"
    /\ UNCHANGED <<bases, setting, full, saved, known, flag, measured, list, todo, seen,
                   victim, events, sent, credit, steady>>

Before(d) == {e \in Listed : list[e] < list[d]}

\* Mutant: the oldest database goes, reserved or not.
PickOldest ==
    /\ pc = "pick"
    /\ \E d \in Listed : Before(d) = {} /\ victim' = d /\ pc' = "delete"
    /\ UNCHANGED <<bases, setting, full, saved, known, flag, measured, list, todo, seen,
                   events, sent, credit, steady>>

Pick ==
    /\ pc = "pick"
    /\ \/ \E d \in Listed :
             /\ seen[d] = "false" /\ \A e \in Before(d) : seen[e] = "true"
             /\ victim' = d /\ pc' = "delete"
       \/ /\ \A d \in Listed : seen[d] = "true"
          /\ pc' = "truncate" /\ UNCHANGED victim
    /\ seen' = NoRows
    /\ UNCHANGED <<bases, setting, full, saved, known, flag, measured, list, todo, events,
                   sent, credit, steady>>

\* do_clean: out of the dict, DELETE FROM db_setting, DROP DATABASE.
CleanDelete ==
    /\ pc = "delete"
    /\ known' = [known EXCEPT ![victim] = "unknown"]
    /\ setting' = [setting EXCEPT ![victim] = "none"]
    /\ pc' = "drop"
    /\ UNCHANGED <<bases, full, saved, flag, measured, list, todo, seen, victim, events,
                   sent, credit, steady>>

\* Mutant: disk_need_clen is not reset.
CleanDropAgain ==
    /\ pc = "drop" /\ birth[victim] # 0
    /\ DropDatabase(victim)
    /\ credit' = FALSE
    /\ pc' = "truncate"
    /\ UNCHANGED <<setting, full, saved, known, flag, measured, list, todo, seen, victim,
                   events, steady>>

CleanDrop ==
    /\ pc = "drop" /\ birth[victim] # 0
    /\ DropDatabase(victim)
    /\ flag' = FALSE /\ credit' = FALSE
    /\ pc' = "truncate"
    /\ UNCHANGED <<setting, full, saved, known, measured, list, todo, seen, victim, events,
                   steady>>

\* dump_to_file: open for writing, then write; a sleep; the next round.
Truncate ==
    /\ pc = "truncate"
    /\ truncated' = TRUE
    /\ pc' = "write"
    /\ UNCHANGED <<bases, setting, full, file, known, flag, measured, list, todo, seen,
                   victim, events, sent, credit, steady>>

Write ==
    /\ pc = "write"
    /\ file' = known /\ truncated' = FALSE
    /\ pc' = "disk"
    /\ UNCHANGED <<bases, setting, full, known, flag, measured, list, todo, seen,
                   victim, events, sent, credit, steady>>
-----------------------------------------------------------------------------
\* The process ends; its memory is gone.
Down ==
    /\ pc' = "down" /\ known' = NoDict /\ todo' = {}
    /\ flag' = FALSE /\ measured' = FALSE /\ seen' = NoRows
    /\ sent' = [d \in Dbs |-> IF sent[d] = "yes" /\ file[d] # "done" THEN "lost" ELSE sent[d]]
    /\ UNCHANGED <<bases, setting, full, saved, list, victim, creates, removals, clicks,
                   kills, credit, steady>>

\* MySQL is out of reach, ps or df print something unexpected, a report raises
\* a KeyError (ConsensusRate), kill -9, ...
Crash ==
    /\ pc # "down" /\ crashes < MaxCrashes
    /\ crashes' = crashes + 1
    /\ Down

\* The exceptions the round itself raises: a report on a database that is gone,
\* when its Store is at hand, or has no ips_table; a CREATE TABLE as in Extend; the
\* KeyErrors of database_detailed_info and database_clean; a kadinfo_root that is
\* not there to be counted, a database that is not there to be dropped.
SelfCrash ==
    /\ \/ pc = "report" /\ \E d \in todo : birth[d] = 0 \/ "ips_table" \notin tables[d]
       \/ pc \in LaterTables /\ (birth[victim] = 0 \/ pc \in tables[victim])
       \/ pc = "detail" /\ ~(Existing \subseteq todo)
       \/ pc = "online" /\ ~(Latest \subseteq Countable)
       \/ /\ pc = "pick"
          /\ \E d \in Listed : seen[d] = "none" /\ \A e \in Before(d) : seen[e] = "true"
       \/ pc = "drop" /\ birth[victim] = 0
    /\ UNCHANGED crashes
    /\ Down

\* spider_alive starts the spider again, which reads the file first and dies
\* when it is not JSON.
Restart ==
    /\ pc = "down" /\ ~truncated
    /\ known' = file
    /\ pc' = "disk"
    /\ UNCHANGED <<bases, setting, full, saved, flag, measured, list, todo, seen,
                   victim, events, sent, credit, steady>>

Round ==
    \/ CheckDiskFree \/ DatabaseTime \/ CheckDatabase \/ Forget
    \/ Report \/ Remake \/ RemakeTable \/ Mark
    \/ Sizes \/ IpCounts \/ DetailedInfo \/ OnlineSizes \/ SettingSelect \/ SettingUpdate
    \/ CleanSelect \/ NoClean \/ Pick \/ CleanDelete \/ CleanDrop
    \/ Truncate \/ Write \/ SelfCrash \/ Restart

Next ==
    \/ Round
    \/ Crash
    \/ \E d \in Dbs : Create(d) \/ Remove(d)
    \/ \E d \in Dbs, t \in LaterTables : Extend(d, t) \/ KillMaker(d, t)
    \/ \E d \in Dbs, v \in {"false", "true"} : Click(d, v)
    \/ DiskChanges

Spec == Init /\ [][Next]_vars

\* The loop goes on, spider_alive restarts it, and consumers that are not killed go
\* on creating.
FairSpec ==
    /\ Spec
    /\ WF_vars(Round)
    /\ \A d \in Dbs, t \in LaterTables : WF_vars(Extend(d, t))
-----------------------------------------------------------------------------
\* The report of a database goes out once, and again only when the spider died after
\* sending it and before the dump at the end of a round: also when rounds fail over
\* and over, and when the database is dropped, or is made again, in between
\* (spider.py:383-396, 557-562).
ReportedOnce ==
    [][\A d \in Dbs : (pc = "report" /\ pc' = "mark" /\ victim' = d) => sent[d] # "yes"]_vars

\* A database is dropped only when the disk was found full since the last drop:
\* one full disk costs one database, across rounds and crashes
\* (spider.py:166-171, 465-482).
DropsEarned ==
    [][(pc = "drop" /\ pc' = "truncate") => credit]_vars

\* A database whose reserve was true when the round began, and was not changed in
\* it, is not cleaned, whatever the round saw of db_setting before
\* (spider.py:465-480).
ReserveRespected ==
    [][(pc = "delete" /\ pc' = "drop" /\ victim \in steady) => setting[victim] # "true"]_vars

\* Databases whose creator was killed, or was the spider that died, before it had
\* made the later tables.  Nothing makes them any more.
HalfMade == {d \in Existing : makers[d] = {} /\ tables[d] # LaterTables}

\* Every database that stays gets its row in db_setting, where the dashboard shows
\* it, and keeps it, and a database that is gone loses its row, as long as the spider
\* remembers it: the row of one that came and went between two dumps stays.  The code
\* has two exceptions.  A spider that died between truncating and writing its file
\* cannot start again.  And while a database stays half-made, of whichever env, every
\* round ends with an exception before anything is listed
\* (spider.py:181-188, 427-449, 557-562, 615, 624; store.py:106, 128, 184).
ExistingListed ==
    <>[](\/ pc = "down" /\ truncated
         \/ HalfMade # {}
         \/ \A d \in Dbs : IF birth[d] # 0 THEN setting[d] # "none"
                           ELSE known[d] # "unknown" => setting[d] = "none")

\* The message of do_clean says that the database is dropped because disk space is
\* limited (spider.py:454): this round found the disk full. The code need not
\* have: disk_need_clen stays set until a round finds a database to drop.
CleanedWhenFull ==
    [][(pc = "delete" /\ pc' = "drop") => measured]_vars
=============================================================================
