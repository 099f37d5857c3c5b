------------------------------ MODULE MCServices ------------------------------
(***************************************************************************)
(* The services around the runners, one component at a time: part, chosen   *)
(* at the start, is the one that runs, and the variables of the others stay *)
(* 0. The scans are extended, the others are instances.                     *)
(***************************************************************************)
EXTENDS Scans, TLC

CONSTANTS Items, Notes, CodeOf, Named, ExpOf, Targets, EndOfCodes, RcFaults, \* RewardCodes
          CodeEvery, CodeRetry, UnavailableRetry, RemindBefore, NotifyRetry,
          Pairs, NoPair, Every, Retry, RetryMax, Cooldown, EndOfTime, MaxWorth, PointsFaults, \* PointsBook
          Ids, Kick, Flows, Pasters, Bare, LoginStarts, NoId, NoFlow, LoginFaults, \* Logins
          Accts, Checks, Runs, Scheduled, Askers, NoAcct, ProbeFaults, \* AuthProbes
          Channels, Raids, NoOne, PointsTasks, RaidTasks, Toggles, \* SideTasks
          Goroutines, Loads, SubBuffer, Saves, Changes, PageFaults \* LivePages

VARIABLES part,
          completed, recent, codeRows, clock, due, lookedUp, sweep, notifyWait, notifyOn, sent,
          again, excused, rcFaults,
          worth, assigned, reading, book, tick, dueBefore, lastManual, wake, pass, hook, page,
          stalePage, since, pbFaults,
          acct, sessions, spare, born, twitchFlows, flow, paste, paused, deleting, changed, load, ran,
          unread, channels, told, refreshed, loginFaults,
          good, active, authKV, check, warned, canaryRunning, canaryRerun, asker, run, canaryKV,
          alarms, owedRun, apFaults,
          watched, points, raids, pt, rt, topicsOn, raidSeen, g, pointsOn, follow, toggles,
          name, state, untold, logging, report, held, buf, subbed, es, loads, shown, given, said,
          unanswered, pageFaults
codeVars  == <<completed, recent, codeRows, clock, due, lookedUp, sweep, notifyWait, notifyOn, sent,
               again, excused, rcFaults>>
bookVars  == <<worth, assigned, reading, book, tick, dueBefore, lastManual, wake, pass, hook, page,
               stalePage, since, pbFaults>>
loginVars == <<acct, sessions, spare, born, twitchFlows, flow, paste, paused, deleting, changed, load,
               ran, unread, channels, told, refreshed, loginFaults>>
probeVars == <<good, active, authKV, check, warned, canaryRunning, canaryRerun, asker, run, canaryKV,
               alarms, owedRun, apFaults>>
taskVars  == <<watched, points, raids, pt, rt, topicsOn, raidSeen, g, pointsOn, follow, toggles>>
pageVars  == <<name, state, untold, logging, report, held, buf, subbed, es, loads, shown, given, said,
               unanswered, pageFaults>>

R == INSTANCE RewardCodes WITH rows <- codeRows, EndOfTime <- EndOfCodes, Every <- CodeEvery, Retry <- CodeRetry
B == INSTANCE PointsBook
L == INSTANCE Logins
A == INSTANCE AuthProbes
T == INSTANCE SideTasks
V == INSTANCE LivePages WITH pending <- held, load <- loads

\* The waits after failed reads are between the first one and the longest.
ASSUME BookAssumption == /\ {Every, Retry, RetryMax, PointsFaults} \subseteq Nat /\ Retry <= Every
                         /\ \A n \in 1..PointsFaults : B!Backoff(n) \in Retry..RetryMax
ASSUME CodesAssumption == \A i \in Items : ExpOf[i] \in Nat
ASSUME LoginsAssumption == NoId \notin Ids /\ \A w \in LoginStarts : w.acct \subseteq Ids /\ w.spare \subseteq Ids
ASSUME TasksAssumption == NoOne \notin PointsTasks \union RaidTasks \union Channels /\ PointsTasks \intersect RaidTasks = {}
-----------------------------------------------------------------------------
(* For TLC: two linked accounts, or one to be linked, with a game to look up; *)
(* every notice is of one reward, whose code expires at 4; the accounts are of *)
(* one platform, and those of Twitch may have to be created.                  *)
ScanStarts == {[accounts |-> Accounts, linkless |-> {}, games |-> {}]}
              \union {[accounts |-> {a}, linkless |-> {a}, games |-> Games] : a \in {CHOOSE b \in Accounts : TRUE}}
OneReward == [n \in Notes |-> CHOOSE i \in Items : TRUE]
OneLogin == {[acct |-> {}, spare |-> Ids \ Kick], [acct |-> Ids \ Kick, spare |-> {}], [acct |-> Kick, spare |-> {}]}
ExpireAt4 == [i \in Items |-> 4]
ScansOff == /\ listed = 0 /\ games = 0 /\ linkless = 0 /\ kept = 0 /\ scan = 0 /\ asked = 0
            /\ fresh = 0 /\ scans = 0 /\ linked = 0 /\ rows = 0 /\ scanRow = 0 /\ seen = 0
            /\ seeded = 0 /\ pending = 0 /\ news = 0 /\ idTried = 0 /\ named = 0 /\ lookup = 0
            /\ missed = 0 /\ recheck = 0 /\ removal = 0 /\ scFaults = 0
CodesOff == /\ completed = 0 /\ recent = 0 /\ codeRows = 0 /\ clock = 0 /\ due = 0 /\ lookedUp = 0
            /\ sweep = 0 /\ notifyWait = 0 /\ notifyOn = 0 /\ sent = 0 /\ again = 0 /\ excused = 0
            /\ rcFaults = 0
BookOff  == /\ worth = 0 /\ assigned = 0 /\ reading = 0 /\ book = 0 /\ tick = 0 /\ dueBefore = 0
            /\ lastManual = 0 /\ wake = 0 /\ pass = 0 /\ hook = 0 /\ page = 0 /\ stalePage = 0
            /\ since = 0 /\ pbFaults = 0
LoginsOff == /\ acct = 0 /\ sessions = 0 /\ spare = 0 /\ born = 0 /\ twitchFlows = 0 /\ flow = 0 /\ paste = 0
             /\ paused = 0 /\ deleting = 0 /\ changed = 0 /\ load = 0 /\ ran = 0 /\ unread = 0
             /\ channels = 0 /\ told = 0 /\ refreshed = 0 /\ loginFaults = 0
ProbesOff == /\ good = 0 /\ active = 0 /\ authKV = 0 /\ check = 0 /\ warned = 0 /\ canaryRunning = 0
             /\ canaryRerun = 0 /\ asker = 0 /\ run = 0 /\ canaryKV = 0 /\ alarms = 0 /\ owedRun = 0
             /\ apFaults = 0
TasksOff == /\ watched = 0 /\ points = 0 /\ raids = 0 /\ pt = 0 /\ rt = 0 /\ topicsOn = 0
            /\ raidSeen = 0 /\ g = 0 /\ pointsOn = 0 /\ follow = 0 /\ toggles = 0
PagesOff == /\ name = 0 /\ state = 0 /\ untold = 0 /\ logging = 0 /\ report = 0 /\ held = 0 /\ buf = 0
            /\ subbed = 0 /\ es = 0 /\ loads = 0 /\ shown = 0 /\ given = 0 /\ said = 0 /\ unanswered = 0
            /\ pageFaults = 0

MCInit ==
  \/ part = "scans" /\ Init /\ CodesOff /\ BookOff /\ LoginsOff /\ ProbesOff /\ TasksOff /\ PagesOff
  \/ part = "codes" /\ ScansOff /\ R!Init /\ BookOff /\ LoginsOff /\ ProbesOff /\ TasksOff /\ PagesOff
  \/ part = "book" /\ ScansOff /\ CodesOff /\ B!Init /\ LoginsOff /\ ProbesOff /\ TasksOff /\ PagesOff
  \/ part = "logins" /\ ScansOff /\ CodesOff /\ BookOff /\ L!Init /\ ProbesOff /\ TasksOff /\ PagesOff
  \/ part = "probes" /\ ScansOff /\ CodesOff /\ BookOff /\ LoginsOff /\ A!Init /\ TasksOff /\ PagesOff
  \/ part = "tasks" /\ ScansOff /\ CodesOff /\ BookOff /\ LoginsOff /\ ProbesOff /\ T!Init /\ PagesOff
  \/ part = "pages" /\ ScansOff /\ CodesOff /\ BookOff /\ LoginsOff /\ ProbesOff /\ TasksOff /\ V!Init
OnScans  == /\ part = "scans" /\ UNCHANGED part
            /\ UNCHANGED <<codeVars, bookVars, loginVars, probeVars, taskVars, pageVars>>
OnCodes  == /\ part = "codes" /\ UNCHANGED part
            /\ UNCHANGED <<scvars, bookVars, loginVars, probeVars, taskVars, pageVars>>
OnBook   == /\ part = "book" /\ UNCHANGED part
            /\ UNCHANGED <<scvars, codeVars, loginVars, probeVars, taskVars, pageVars>>
OnLogins == /\ part = "logins" /\ UNCHANGED part
            /\ UNCHANGED <<scvars, codeVars, bookVars, probeVars, taskVars, pageVars>>
OnProbes == /\ part = "probes" /\ UNCHANGED part
            /\ UNCHANGED <<scvars, codeVars, bookVars, loginVars, taskVars, pageVars>>
OnTasks  == /\ part = "tasks" /\ UNCHANGED part
            /\ UNCHANGED <<scvars, codeVars, bookVars, loginVars, probeVars, pageVars>>
OnPages  == /\ part = "pages" /\ UNCHANGED part
            /\ UNCHANGED <<scvars, codeVars, bookVars, loginVars, probeVars, taskVars>>
MCNext == \/ OnScans /\ Next
          \/ OnCodes /\ R!Next
          \/ OnBook /\ B!Next
          \/ OnLogins /\ L!Next
          \/ OnProbes /\ A!Next
          \/ OnTasks /\ T!Next
          \/ OnPages /\ V!Next
mcvars == <<part, scvars, codeVars, bookVars, loginVars, probeVars, taskVars, pageVars>>
MCSpec == MCInit /\ [][MCNext]_mcvars
-----------------------------------------------------------------------------
\* Scans.tla states each: a campaign one account finds wakes all it concerns.
Woken == part = "scans" => EveryoneWoken
\* What a deleted account had scanned does not come back.
Forgotten == part = "scans" => ForgottenStays
\* RewardCodes.tla: a notice is sent twice only when its delivery was not recorded.
RepeatExcused == part = "codes" => R!RepeatExcused
\* PointsBook.tla: one refresh reads no balance twice.
NeverTwice == part = "book" => B!NeverTwice
\* Logins.tla: an answered sign-in is the stored session, a Kick one is applied.
AnsweredIsStored == part = "logins" => L!AnsweredIsStored /\ L!KickSettles
\* AuthProbes.tla: a canary run asked for during a run is not lost.
FlagSeen == part = "probes" => A!FlagSeen
\* SideTasks.tla: the claims and joins under way are of the live watch, or being stopped.
TasksOwned == part = "tasks" => T!TasksOwned
\* LivePages.tla: a page that is connected is given the news, but for a request that failed.
NewsArrives == part = "pages" => V!NewsArrives
-----------------------------------------------------------------------------
(* The code breaks these; the README's findings say how. The module named    *)
(* states each, and TLC refutes it once it is listed in Services.cfg.        *)
\* RewardCodes.tla: every notice is sent once.
NoticeOnce == part = "codes" => R!NoticeOnce
\* RewardCodes.tla: every code is told once.
CodeOnce == part = "codes" => R!CodeOnce
\* RewardCodes.tla: a closed code is not notified.
ClosedIsSilent == [][part = "codes" => R!SentWhileOpen]_sent
\* PointsBook.tla: a refresh reads every pair.
RefreshReadsAll == part = "book" => B!RefreshReadsAll
\* PointsBook.tla: the page has what the cache has.
PageIsCache == part = "book" => B!PageIsCache
\* PointsBook.tla: a balance is not put back.
NeverBack == [][part = "book" => B!NotLess]_book
\* Logins.tla: a sign-in stays through a refresh.
LoginKept == part = "logins" => L!LoginKept
\* Logins.tla: a Twitch user has one account (with Ids = {b1, b2}, Kick = {}, Pasters = {u1, u2}).
OneAccountPerUser == part = "logins" => L!OneAccountPerUser
\* Logins.tla: the runner has the session stored.
StoredIsApplied == part = "logins" => L!StoredIsApplied
\* Logins.tla: the channels registered are those the stored session lists.
KickListed == part = "logins" => L!KickListed
\* AuthProbes.tla: a rerun asked for runs.
RerunServed == part = "probes" => A!RerunServed
\* AuthProbes.tla: a skip means there is no account.
SkipIsCurrent == part = "probes" => A!SkipIsCurrent
\* AuthProbes.tla: one notice for one failure (refuted with ProbeFaults = 2).
CanaryOnce == part = "probes" => A!CanaryOnce
\* AuthProbes.tla: the last notice is the state stored (with Checks = {c1, c2}).
NoticeAgrees == part = "probes" => A!NoticeAgrees
\* AuthProbes.tla: a verdict is of the session stored.
CheckIsCurrent == [][part = "probes" => A!VerdictIsCurrent]_authKV
\* Scans.tla: a rebuilt runner's first scan wakes nobody.
WakesNobody == [][part = "scans" => FreshWakesNobody]_pending
\* Scans.tla: what ClearLinks hid is hidden till the next scan.
Hidden == [][part = "scans" => StaysHidden]_board
\* Scans.tla: a failed store of a category's id is tried again at the next scan.
ErrorIsRetried == part = "scans" => ErrorRetries
\* SideTasks.tla: the live task hears its channel.
RaidsHeard == part = "tasks" => T!RaidsHeard
\* LivePages.tla: a connected page has the newest name.
NewestGiven == part = "pages" => V!NewestGiven
\* LivePages.tla: a rename shows.
RenameShows == part = "pages" => V!RenameShows
\* LivePages.tla: the newest state shows.
StateShows == part = "pages" => V!StateShows
=============================================================================
