-------------------------------- MODULE MCStores --------------------------------
(***************************************************************************)
(* More parts of the servers that share nothing, under TLC: the pollers    *)
(* with the daily schedulers, the reminder scans, the files of an object   *)
(* store, the row of settings, the calendar, the board of a plan and the   *)
(* ingestion of a text.  A behaviour picks one of them and the others stay *)
(* where they start.                                                       *)
(***************************************************************************)
EXTENDS TelegramIntake, ReminderScan, SettingsRow, ObjectFiles, Calendar, PlanBoard,
        PlanIngestion, TLC

CONSTANT Shelves  \* the parts this instance explores

VARIABLE shelf

storesVars == <<shelf, intakeVars, scanVars, settingsVars, fileVars, calVars, boardVars,
                ingestVars>>

\* An hour of the first or of the last day of the month comes twice, or not at all.
MCZones == [at : {4, 8}, shift : {-1, 1}]

Hour(from, to, shortest) == [from |-> from, to |-> to, shortest |-> shortest]
MCAvailabilities == {Hour(0, 2, 1), Hour(0, 2, 2), Hour(1, 2, 1)}

\* A text of three paragraphs, and those in which its first paragraph moves behind the others and
\* back, each time to the line it had; and one that repeats its only paragraph.
Written(fps, above) == [i \in DOMAIN fps |-> [fp |-> fps[i], line |-> above + i]]
MCTexts == {Written(<<"s", "t", "u">>, 0), Written(<<"t", "u", "s">>, 0),
            Written(<<"s", "t", "u">>, 2), Written(<<"s", "s">>, 0)}

\* Some parts have several initial states; they count once per part.
StoresInit ==
  /\ shelf \in Shelves
  /\ IntakeInit /\ ScanInit /\ SettingsInit /\ FilesInit /\ CalendarInit
  /\ BoardInit /\ IngestInit
  /\ shelf # "files" => store = "local" /\ ancestors = "missing"
  /\ shelf # "calendar" => zone = [at |-> 4, shift |-> 1]

Only(p) ==
  /\ shelf = p /\ UNCHANGED shelf
  /\ IF p # "intake"    THEN UNCHANGED intakeVars   ELSE TRUE
  /\ IF p # "scan"      THEN UNCHANGED scanVars     ELSE TRUE
  /\ IF p # "settings"  THEN UNCHANGED settingsVars ELSE TRUE
  /\ IF p # "files"     THEN UNCHANGED fileVars     ELSE TRUE
  /\ IF p # "calendar"  THEN UNCHANGED calVars      ELSE TRUE
  /\ IF p # "board"     THEN UNCHANGED boardVars    ELSE TRUE
  /\ IF p # "ingestion" THEN UNCHANGED ingestVars   ELSE TRUE

StoresNext ==
  \/ Only("intake")    /\ IntakeNext
  \/ Only("scan")      /\ ScanNext
  \/ Only("settings")  /\ SettingsNext
  \/ Only("files")     /\ FilesNext
  \/ Only("calendar")  /\ CalendarNext
  \/ Only("board")     /\ BoardNext
  \/ Only("ingestion") /\ IngestNext

StoresSpec == StoresInit /\ [][StoresNext]_storesVars
===============================================================================
