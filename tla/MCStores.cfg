\* The pollers, the scans, calls on one key of an object store, the row of settings, and a month of
\* two days, the board of a plan, and a text that is ingested; each by itself.
SPECIFICATION StoresSpec
CONSTANTS
  Shelves = {"intake", "scan", "settings", "files", "calendar", "board",
             "ingestion"}
  Hosts = {a, b}  FirstChat = 1  MaxUpdates = 2  MaxTokens = 1  MaxHalfDays = 2
  Scanners = {c1}  ScanOrders = {1, 2}  PastOrders = {1}  MaxScanDay = 2
  Editors = {e1, e2}  Binders = {b1, b2}  Zones = {z0, z1}  DefaultZone = z0  MaxSettingsEdits = 2
  Putters = {p1, p2}  Deleters = {d1}  StoreKinds = {"local", "bucket"}  MaxDirs = 2  MaxLosses = 1
  CalSlots = {k1, k2}  MonthLength = 2  Hours = 3  Availabilities <- MCAvailabilities
  ZoneChanges <- MCZones
  Shots = {x1, x2}  Items = {i1}  NoShot = NoShot  MaxFacts = 2  MaxSessions = 1  MaxFinals = 1
  Paragraphs = {"s", "t", "u"}  Texts <- MCTexts  MaxPreviews = 4  MaxDecisions = 1  MaxIngestions = 1
INVARIANTS AnsweredOnce LastWriteStands AnswersAreDurable CalendarAgrees BoardAgrees
PROPERTIES AnsweredStaysAnswered CommitsWhatWasConfirmed
\* The bounds stop the settings and the calendar.
CHECK_DEADLOCK FALSE
