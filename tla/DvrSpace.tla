------------------------------ MODULE DvrSpace ------------------------------
(***************************************************************************)
(* The recorded files on the card, ak_dvr_file.c with record_fs.c: the     *)
(* list of them, the account of the room left, the scan that fills the     *)
(* list, and the deletion of old files for new ones.                       *)
(*                                                                         *)
(* A file is its time.  It lies in a directory per hour, of which only the *)
(* day is kept as a time (get_dir_calendar_time).                          *)
(*                                                                         *)
(* ctl is ak_dvr_file_create_list, called by record control; scan is the   *)
(* thread get_pre_saved_record, which also posts finish_sem; flush is      *)
(* stat_record_file and what it calls, in the thread record_file_main.     *)
(*                                                                         *)
(* An entry of the list, and a directory's, is a node of a pool, which     *)
(* refuses one each time its cursor wraps, though others are free          *)
(* (NodePool); here any request for a node may be refused.                 *)
(***************************************************************************)
EXTENDS Integers, FiniteSets, SequencesExt

CONSTANTS Files,       \* times of the files that were or will be recorded
          Saved,       \* sets of them that the card may hold at first
          Hour, Day,   \* lengths of an hour and of a day
          Lasting,     \* how long a file lasts
          Size(_),     \* of a file
          Capacity,    \* of the card
          Reserved,    \* reserved_size: a tenth of the card
          Word,        \* sizes are unsigned long: numbers below Word
          Faults,
          MaxLists,    \* bound: calls of ak_dvr_file_create_list
          MaxRefused   \* bound: files that are at a time without a node

(* "race":      two threads meet between an unlocked look and its use      *)
(* "quickscan": a scan ends between two instructions of its caller         *)
SpaceFault == {"race", "quickscan"}

ASSUME TimesAssumption == /\ Files \subseteq Nat
                          /\ Hour \in Nat \ {0} /\ Day \in Nat \ {0}
                          /\ Hour <= Day
                          /\ Lasting \in 1..Hour
(* A card's size is an unsigned long as every other.                       *)
ASSUME SizesAssumption == /\ \A f \in Files : Size(f) \in Nat
                          /\ Capacity \in Nat /\ Reserved \in Nat
                          /\ Word \in Nat /\ Capacity < Word
ASSUME BoundAssumption == MaxLists \in Nat /\ MaxRefused \in Nat

VARIABLES card,          \* the saved files
          folders,       \* the directories of hours
          tmp,           \* a temporary file handed to the flush thread
          past,          \* the files recorded
          dirs, listed,  \* the list: directories in order, files in them
          refused,       \* history: files not listed, for want of a node
          free_size, used_size, cyc_flag, status, full_flag,
          pre_record_sem, finish_sem,
          no_space,      \* DVR_EXCEPT_SD_NO_SPACE reported
          scan, flush, ctl, lists

accountVars == <<free_size, used_size>>
listVars == <<dirs, listed, refused>>
diskVars == <<card, folders>>
semVars == <<full_flag, pre_record_sem, finish_sem>>
ctlVars == <<ctl, lists>>
recorderVars == <<tmp, past>>
vars == <<accountVars, listVars, diskVars, semVars, ctlVars, recorderVars,
          cyc_flag, status, no_space, scan, flush>>

NoFile == -1
HourOf(f) == f \div Hour
DayOf(h) == (h * Hour) \div Day      \* get_dir_calendar_time
In(h, files) == {f \in files : HourOf(f) = h}
Total(files) == MapThenSumSet(Size, files)
Least(S) == CHOOSE x \in S : \A y \in S : x <= y
(* What a card may hold at first fits on it.                               *)
ASSUME SavedAssumption == \A files \in Saved : /\ files \subseteq Files
                                               /\ IsFiniteSet(files)
                                               /\ Total(files) <= Capacity
DiskFree == Capacity - Total(card) - (IF tmp = NoFile THEN 0 ELSE Size(tmp))

-----------------------------------------------------------------------------
(* The list.                                                               *)

(* add_dir_to_list: before the last directory of an earlier day, if any.   *)
EarlierDays(ds, h) == {i \in DOMAIN ds : DayOf(ds[i]) < DayOf(h)}
add_dir_to_list(ds, h) ==
  IF EarlierDays(ds, h) = {} THEN Append(ds, h)
                             ELSE InsertAt(ds, Max(EarlierDays(ds, h)), h)
create_entry_dir(ds, h) ==
  IF h \in folders /\ Contains(ds, h) THEN ds ELSE add_dir_to_list(ds, h)

(* find_dir_list, with a node for a new directory or without.              *)
MayRefuse(f) == Cardinality(refused \union {f}) <= MaxRefused
find_dir_list(f) == \/ dirs' = create_entry_dir(dirs, HourOf(f))
                    \/ MayRefuse(f) /\ dirs' = dirs
(* add_entry_into_order_list, if the directory is in the list.             *)
Unlisted(f) == refused' = refused \union ({f} \ listed) /\ UNCHANGED listed
Enter(f, ds) == IF Contains(ds, HourOf(f))
                  THEN listed' = listed \union {f} /\ refused' = refused \ {f}
                  ELSE Unlisted(f)
(* A file with no node of its own gets no directory either.                *)
add_file_to_list(f) == \/ MayRefuse(f) /\ Unlisted(f) /\ UNCHANGED dirs
                       \/ find_dir_list(f) /\ Enter(f, dirs')

(* The directories of hours, in the order they have in ds.                 *)
DirsOf(ds, hours) ==
  LET kept[i \in 0..Len(ds)] ==
        IF i = 0 THEN << >>
        ELSE IF ds[i] \in hours THEN Append(kept[i - 1], ds[i]) ELSE kept[i - 1]
  IN kept[Len(ds)]

(* remove_earliest_file looks for the first directory of the first day, in *)
(* it for the first file, and ends where it finds none.                    *)
Place(h) == Least({i \in DOMAIN dirs : dirs[i] = h})
MutDirsInOrder(h, k) == Place(h) < Place(k)
DirBefore(h, k) == \/ DayOf(h) < DayOf(k)
                   \/ DayOf(h) = DayOf(k) /\ Place(h) < Place(k)
FileBefore(f, g) == \/ DirBefore(HourOf(f), HourOf(g))
                    \/ HourOf(f) = HourOf(g) /\ f < g
Reachable == {f \in listed : \A i \in DOMAIN dirs :
                DirBefore(dirs[i], HourOf(f)) => In(dirs[i], listed) # {}}
Doomed(occupy) ==
  {f \in Reachable : free_size + Total({g \in Reachable : FileBefore(g, f)})
                       <= occupy}
Emptied(gone) == {h \in ToSet(dirs) : In(h, listed) # {} /\ In(h, listed \ gone) = {}}
RoomAfter(occupy) == free_size + Total(Doomed(occupy))
remove_earliest_file(occupy) ==
  LET gone == Doomed(occupy)
  IN /\ listed' = listed \ gone
     /\ dirs' = DirsOf(dirs, ToSet(dirs) \ Emptied(gone))
     /\ card' = card \ gone
     /\ folders' = folders \ {h \in Emptied(gone) : In(h, card \ gone) = {}}
     /\ free_size' = free_size + Total(gone)
     /\ used_size' = (used_size - Total(gone)) % Word
     /\ UNCHANGED refused
KeepAll == UNCHANGED <<listVars, diskVars, accountVars>>

-----------------------------------------------------------------------------
ScanIdle == [pc |-> "idle", days |-> {}, hours |-> {}, files |-> {},
             hour |-> 0, total |-> 0, sum |-> 0]

Init == /\ card \in Saved
        /\ folders = {HourOf(f) : f \in card}
        /\ tmp = NoFile
        /\ past = card
        /\ dirs = << >> /\ listed = {} /\ refused = {}
        /\ free_size = 0 /\ used_size = 0
        /\ cyc_flag \in BOOLEAN
        /\ status = "ready"
        /\ full_flag = FALSE
        /\ pre_record_sem = 0 /\ finish_sem = 0
        /\ no_space = FALSE
        /\ scan = ScanIdle
        /\ flush = "idle"
        /\ ctl = "idle"
        /\ lists = 0

(* Without "race", a look and its use are one.                             *)
Alone(t) == "race" \in Faults \/
            CASE t = "scan" -> flush = "idle"
              [] t = "flush" -> scan.pc # "reserve"
              [] t = "ctl" -> flush = "idle" /\ scan.pc # "reserve"

-----------------------------------------------------------------------------
(* ak_dvr_file_create_list, at a card's mounting and while it is full.     *)

CreateBegins ==
  /\ ctl = "idle" /\ lists < MaxLists /\ Alone("ctl")
  /\ lists = 0 \/ no_space \/ scan.pc = "idle"
  /\ free_size' = DiskFree
  /\ pre_record_sem' = pre_record_sem + 1
  /\ no_space' = FALSE
  /\ lists' = lists + 1
  /\ ctl' = "posted"
  /\ UNCHANGED <<used_size, listVars, diskVars, full_flag, finish_sem,
                 recorderVars, cyc_flag, status, scan, flush>>

CreateLooks ==
  /\ ctl = "posted"
  /\ IF free_size < Reserved THEN full_flag' = TRUE /\ ctl' = "wait"
                             ELSE ctl' = "idle" /\ UNCHANGED full_flag
  /\ UNCHANGED <<accountVars, listVars, diskVars, pre_record_sem, finish_sem,
                 lists, recorderVars, cyc_flag, status, no_space, scan, flush>>

CreateWaited ==
  /\ ctl = "wait" /\ finish_sem > 0
  /\ finish_sem' = finish_sem - 1
  /\ ctl' = "idle"
  /\ UNCHANGED <<accountVars, listVars, diskVars, full_flag, pre_record_sem,
                 lists, recorderVars, cyc_flag, status, no_space, scan, flush>>

ak_dvr_file_create_list == CreateBegins \/ CreateLooks \/ CreateWaited

-----------------------------------------------------------------------------
(* get_sdcard_record.  search_record_file is scan.days, hours and files    *)
(* still to be visited; sum is rec_total_size.                             *)

ScanOnly == UNCHANGED <<listVars, diskVars, accountVars, semVars, ctlVars,
                        recorderVars, cyc_flag, status, no_space, flush>>
ScanIs(pc, change) == scan' = [change EXCEPT !.pc = pc]

ScanWakes ==
  /\ scan.pc = "idle" /\ pre_record_sem > 0
  /\ pre_record_sem' = pre_record_sem - 1
  /\ status' = "fetching"
  /\ scan' = [ScanIdle EXCEPT !.pc = "day", !.days = {DayOf(h) : h \in folders}]
  /\ UNCHANGED <<listVars, diskVars, accountVars, full_flag, finish_sem, ctlVars,
                 recorderVars, cyc_flag, no_space, flush>>

ScanEntersDay ==
  /\ scan.pc = "day"
  /\ IF scan.days = {} THEN ScanIs("sum", scan)
     ELSE LET d == Least(scan.days)
          IN ScanIs("hour", [scan EXCEPT !.days = @ \ {d},
                !.hours = {h \in folders : DayOf(h) = d}])
  /\ ScanOnly

(* At the end of a day's directory the function returns rec_total_size,    *)
(* the sum so far, and its caller adds that.                               *)
DayAdded(sum) == sum + sum
ScanEntersHour ==
  /\ scan.pc = "hour"
  /\ IF scan.hours = {} THEN ScanIs("day", [scan EXCEPT !.sum = DayAdded(@) % Word])
     ELSE LET h == Least(scan.hours)
          IN ScanIs("file", [scan EXCEPT !.hours = @ \ {h}, !.hour = h,
                               !.total = 0, !.files = In(h, card)])
  /\ ScanOnly

(* The end of an hour's directory, which is removed if it had no file.     *)
ScanLeavesHour ==
  /\ scan.pc = "file" /\ scan.files = {} /\ Alone("scan")
  /\ folders' = IF scan.total = 0 /\ In(scan.hour, card) = {}
                  THEN folders \ {scan.hour} ELSE folders
  /\ ScanIs("hour", [scan EXCEPT !.sum = (@ + scan.total) % Word])
  /\ UNCHANGED <<listVars, card, accountVars, semVars, ctlVars, recorderVars,
                 cyc_flag, status, no_space, flush>>

(* A file that is gone ends the directory; others are called back.         *)
ScanFile ==
  /\ scan.pc = "file" /\ scan.files # {} /\ Alone("scan")
  /\ LET f == Least(scan.files)
     IN IF f \notin card
          THEN ScanIs("file", [scan EXCEPT !.files = {}]) /\ UNCHANGED listVars
          ELSE /\ add_file_to_list(f)
               /\ ScanIs("file", [scan EXCEPT !.files = @ \ {f},
                                              !.total = @ + Size(f)])
  /\ UNCHANGED <<diskVars, accountVars, semVars, ctlVars, recorderVars, cyc_flag,
                 status, no_space, flush>>

(* The sum, and remove_del_file.                                           *)
ScanSums ==
  /\ scan.pc = "sum" /\ Alone("scan")
  /\ used_size' = (used_size + scan.sum) % Word
  /\ listed' = listed \intersect card
  /\ dirs' = DirsOf(dirs, {HourOf(f) : f \in listed'})
  /\ folders' = {h \in folders : h \in ToSet(dirs) => In(h, card) # {}}
  /\ status' = "ok"
  /\ ScanIs("room", [scan EXCEPT !.sum = 0])
  /\ UNCHANGED <<card, refused, free_size, semVars, ctlVars, recorderVars, cyc_flag,
                 no_space, flush>>

(* Is there room for the reserve, or can it be made?                       *)
ScanLooksForRoom ==
  /\ scan.pc = "room" /\ Alone("scan")
  /\ LET enough == IF cyc_flag /\ free_size < Reserved
                     THEN /\ free_size + used_size > Reserved
                          /\ RoomAfter(Reserved) > Reserved
                     ELSE free_size >= Reserved
         makes == /\ cyc_flag /\ free_size < Reserved
                  /\ free_size + used_size > Reserved
     IN /\ IF makes THEN remove_earliest_file(Reserved) ELSE KeepAll
        /\ ScanIs(IF enough THEN "reserve" ELSE "post", scan)
        /\ no_space' = (no_space \/ ~enough)
  /\ UNCHANGED <<semVars, ctlVars, recorderVars, cyc_flag, status, flush>>

ScanReserves ==
  /\ scan.pc = "reserve"
  /\ ctl = "posted" => "quickscan" \in Faults
  /\ free_size' = (free_size - Reserved) % Word
  /\ ScanIs("post", scan)
  /\ UNCHANGED <<listVars, diskVars, used_size, semVars, ctlVars, recorderVars,
                 cyc_flag, status, no_space, flush>>

MutPostsNever == UNCHANGED finish_sem
PostsFinish == finish_sem' = IF full_flag THEN finish_sem + 1 ELSE finish_sem
ScanPosts ==
  /\ scan.pc = "post"
  /\ ctl = "posted" => "quickscan" \in Faults
  /\ PostsFinish
  /\ scan' = ScanIdle
  /\ UNCHANGED <<listVars, diskVars, accountVars, full_flag, pre_record_sem,
                 ctlVars, recorderVars, cyc_flag, status, no_space, flush>>

get_pre_saved_record ==
  \/ ScanWakes \/ ScanEntersDay \/ ScanEntersHour \/ ScanLeavesHour \/ ScanFile
  \/ ScanSums \/ ScanLooksForRoom \/ ScanReserves \/ ScanPosts

-----------------------------------------------------------------------------
(* The recorder fills the temporary file and hands it over.                *)

Record == /\ tmp = NoFile /\ flush = "idle"
          /\ lists > 0 /\ ctl = "idle" /\ ~no_space
          /\ \E f \in Files \ past :
               /\ \A g \in past : g < f
               /\ Size(f) <= DiskFree
               /\ tmp' = f
               /\ past' = past \union {f}
          /\ UNCHANGED <<listVars, diskVars, accountVars, semVars, ctlVars,
                         cyc_flag, status, no_space, scan, flush>>

(* stat_record_file.  What cannot be saved stays in the temporary file     *)
(* until that is used again.                                               *)
FlushLooks ==
  /\ flush = "idle" /\ tmp # NoFile /\ Alone("flush")
  /\ LET occupy == Size(tmp)
         saves == \/ occupy <= free_size
                  \/ cyc_flag /\ occupy < RoomAfter(occupy)
     IN /\ IF cyc_flag /\ occupy > free_size THEN remove_earliest_file(occupy)
                                             ELSE KeepAll
        /\ flush' = IF saves THEN "account" ELSE "idle"
        /\ tmp' = IF saves THEN tmp ELSE NoFile
        /\ no_space' = (no_space \/ (~saves /\ ~cyc_flag))
  /\ UNCHANGED <<semVars, ctlVars, past, cyc_flag, status, scan>>

FlushOnly == UNCHANGED <<semVars, ctlVars, past, cyc_flag, status, no_space, scan>>

MutChargesNothing(size) == UNCHANGED accountVars
update_used_size(size) == /\ used_size' = (used_size + size) % Word
                          /\ free_size' = (free_size - size) % Word
FlushAccounts == /\ flush = "account"
                 /\ update_used_size(Size(tmp))
                 /\ flush' = "dir"
                 /\ FlushOnly /\ UNCHANGED <<listVars, diskVars, tmp>>

(* add_file_to_list, which makes the directory of a new hour on the card   *)
(* as well; without a node for the file it does nothing at all.            *)
FlushIsRefused == /\ flush = "dir"
                  /\ MayRefuse(tmp) /\ Unlisted(tmp)
                  /\ flush' = "bare"
                  /\ FlushOnly /\ UNCHANGED <<dirs, diskVars, accountVars, tmp>>

MutMakesNoDir == /\ flush = "dir"
                 /\ find_dir_list(tmp)
                 /\ flush' = "entry"
                 /\ FlushOnly
                 /\ UNCHANGED <<listed, refused, diskVars, accountVars, tmp>>
FlushFindsDir == /\ flush = "dir"
                 /\ find_dir_list(tmp)
                 /\ folders' = folders \union {HourOf(tmp)}
                 /\ flush' = "entry"
                 /\ FlushOnly
                 /\ UNCHANGED <<listed, refused, card, accountVars, tmp>>

(* A directory that is not in the list, or no longer, keeps the file out.  *)
FlushLists == /\ flush = "entry"
              /\ Enter(tmp, dirs)
              /\ flush' = "rename"
              /\ FlushOnly /\ UNCHANGED <<dirs, diskVars, accountVars, tmp>>

FlushRenames == /\ flush \in {"rename", "bare"}
                /\ card' = IF HourOf(tmp) \in folders THEN card \union {tmp}
                                                      ELSE card
                /\ tmp' = NoFile
                /\ flush' = "idle"
                /\ FlushOnly /\ UNCHANGED <<folders, listVars, accountVars>>

generate_record_file == \/ FlushAccounts \/ FlushIsRefused \/ FlushFindsDir
                        \/ FlushLists \/ FlushRenames
flush_record_file == FlushLooks \/ generate_record_file

-----------------------------------------------------------------------------
(* record_file_get_list: what is looked up.  Of it, add_to_replay_list     *)
(* leaves out a file for whose copy the pool refuses a node.               *)

check_time_axis(s, e, from, to) ==
  /\ s < e /\ from < to
  /\ \/ from >= s /\ from < e
     \/ to > s /\ to <= e
     \/ s >= from /\ s < to
     \/ e > from /\ e <= to
MutWiden(s) == s - (s % Hour)
Widen(s) == (s - (s % Hour)) - Day
WidenEnd(e) == (e - (e % Hour)) + Hour
get_replay_from_list(s, e) ==
  {f \in listed :
     LET day == DayOf(HourOf(f)) * Day
     IN /\ check_time_axis(day, day + Day, Widen(s), WidenEnd(e))
        /\ check_time_axis(f, f + Lasting, Widen(s), WidenEnd(e))}
get_replay_from_dir(s, e) ==
  {f \in card : /\ HourOf(f) * Hour \in Widen(s)..WidenEnd(e)
                /\ check_time_axis(s, e, f, f + Lasting)}
record_file_get_list(s, e) == IF status = "ok" THEN get_replay_from_list(s, e)
                                               ELSE get_replay_from_dir(s, e)

-----------------------------------------------------------------------------
Next == \/ ak_dvr_file_create_list
        \/ get_pre_saved_record
        \/ Record
        \/ flush_record_file

Spec == Init /\ [][Next]_vars
Fairness == /\ WF_vars(CreateLooks) /\ WF_vars(CreateWaited)
            /\ WF_vars(get_pre_saved_record)
            /\ WF_vars(flush_record_file)
FairSpec == Spec /\ Fairness

-----------------------------------------------------------------------------
TypeOK == /\ card \subseteq Files /\ listed \subseteq Files
          /\ refused \subseteq Files \ listed
          /\ dirs \in Seq({HourOf(f) : f \in Files}) /\ IsInjective(dirs)
          /\ free_size \in 0..Capacity /\ used_size \in 0..Word - 1
          /\ pre_record_sem \in 0..MaxLists /\ finish_sem \in 0..MaxLists
          /\ status \in {"ready", "fetching", "ok"}

(* Both threads are between two pieces of work, and the scan has been told *)
(* of no other.                                                            *)
AtRest == scan.pc = "idle" /\ flush = "idle" /\ pre_record_sem = 0 /\ status = "ok"

(* What the account has left is on the card, above the reserve: a recording*)
(* that the account lets begin does not meet a full card.                  *)
AccountIsBacked == AtRest /\ ~no_space => free_size + Reserved <= Capacity - Total(card)

(* Every file in the list is on the card, and every file on the card is in *)
(* the list, or it would never be deleted for room nor be replayed; but    *)
(* for one that was refused a node when the scan or the flush thread last  *)
(* came to it.                                                             *)
ListIsCard == AtRest => listed = card \ refused

(* What is asked for is found, on the list as in the directories: a file   *)
(* that began in the hour or the day before, too.                          *)
ReplayIsFound ==
  AtRest => \A f \in card \ refused : \A s \in f..(f + Lasting - 1) :
              f \in record_file_get_list(s, s + 1)

(* List, account and card tell the same, whatever the scan, the flush      *)
(* thread and the deletion for room met each other with (lines 841-949,    *)
(* 1081-1152).                                                             *)
CardIsAsKept == TypeOK /\ ListIsCard /\ AccountIsBacked /\ ReplayIsFound

(* What the account was charged for is saved: its directory is still there *)
(* at the rename (line 1090), list or no list.  Only a file that was       *)
(* refused a node, and is the first of its hour on the card, is lost.      *)
NoSegmentLost ==
  [][flush' = "idle" /\ flush \in {"rename", "bare"} =>
       \/ tmp \in card'
       \/ flush = "bare" /\ In(HourOf(tmp), card) = {}]_vars

(* For room, files of the oldest day on the list go first.                 *)
OldestDayGoes ==
  [][\A f \in card \ card', g \in listed' : DayOf(HourOf(f)) <= DayOf(HourOf(g))]_vars
(* And of them the earliest: remove_earliest_file says so.                 *)
EarliestGoes == [][\A f \in card \ card', g \in listed' : f < g]_vars

(* create_list comes back.                                                 *)
CreateReturns == (ctl = "wait") ~> (ctl = "idle")
=============================================================================
