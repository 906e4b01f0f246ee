----------------------------- MODULE AppLogger -----------------------------
(***************************************************************************)
(* AppLogger in its asynchronous mode, the one the program uses: the log   *)
(* functions put a task on the SimpleMessageQueue it derives from, the     *)
(* consumer thread writes it to a file of a ring of files.                 *)
(*                                                                         *)
(* A file is named by a day (0 when the names carry no date) and a number. *)
(* The size of a file is counted in messages; a big message is alone over  *)
(* the limit.  time, stdio and the disk are external.                      *)
(***************************************************************************)
EXTENDS MsgQueue, FiniteSets

CONSTANTS
  MaxSize,  \* m_max_size * 1024, in small messages
  MaxFile,  \* m_max_file_count
  MaxDay,   \* bound on the days that pass (fewer than a month)
  MaxFail,  \* bound on the messages that cannot be written
  Big,      \* which messages of a producer are big
  None      \* no file, no path

ASSUME LoggerAssumption ==
  /\ MaxSize \in Nat /\ MaxFile \in Nat \ {0} /\ MaxDay \in Nat \ {0}
  /\ MaxFail \in Nat /\ Big \subseteq 1..MaxPut
  /\ None \notin (0..MaxDay) \X (1..MaxFile)

VARIABLES
  m_initialized, m_is_daily, m_day, m_seq,
  m_file,           \* the open file's name
  m_log_file_path,
  m_printed_size,
  day,              \* external: tm_mday
  disk,             \* the files and the messages in them
  fails,            \* messages lost as localtime, fopen or fprintf failed
  opened,           \* history: the files created, in order
  logged            \* history: the messages printed, with their day and
                    \* the number of files created by then

fileVars == <<m_day, m_seq, m_file, m_log_file_path, m_printed_size, disk,
              fails, opened, logged>>
logVars  == <<m_initialized, m_is_daily, day, fileVars>>
allVars  == <<vars, logVars>>

Days  == IF m_is_daily THEN 1..MaxDay ELSE {0}
Names == (0..MaxDay) \X (1..MaxFile)

LoggerTypeOK ==
  /\ TypeOK
  /\ m_initialized \in BOOLEAN /\ m_is_daily \in BOOLEAN
  /\ m_day \in 0..MaxDay /\ m_seq \in 0..MaxFile
  /\ m_file \in Names \union {None} /\ m_log_file_path \in Names \union {None}
  /\ m_printed_size \in Nat /\ day \in 1..MaxDay /\ fails \in 0..MaxFail
  /\ DOMAIN disk \subseteq Days \X (1..MaxFile)
  /\ \A n \in DOMAIN disk : disk[n] \in Seq(Messages)

(* The directory may hold files of earlier runs of the program. *)
LoggerInit ==
  /\ Init
  /\ m_initialized = FALSE /\ m_is_daily \in BOOLEAN
  /\ m_day = 0 /\ m_seq = 0 /\ m_file = None /\ m_log_file_path = None
  /\ m_printed_size = 0 /\ day = 1 /\ fails = 0
  /\ \E k \in 0..MaxFile :
       disk = [n \in {IF m_is_daily THEN 1 ELSE 0} \X (1..k) |-> <<>>]
  /\ opened = <<>> /\ logged = <<>>

----------------------------------------------------------------------------
Size(m) == IF m[2] \in Big THEN MaxSize + 1 ELSE 1

NewDay == m_is_daily /\ m_day # day

(* Mutant of Rotate: the size is not looked at. *)
RotateOnlyNew == NewDay \/ m_seq > MaxFile \/ m_file = None

(* When write_log goes to another file. *)
Rotate == NewDay \/ m_printed_size > MaxSize \/ m_seq > MaxFile \/ m_file = None

(* Mutant of NextSeq: the ring is one file short. *)
NextSeqShort(s) == IF s + 1 >= MaxFile THEN 1 ELSE s + 1

NextSeq(s) == (s % MaxFile) + 1

FirstSeq == NextSeq(IF NewDay \/ m_seq > MaxFile THEN 0 ELSE m_seq)

(* The first file of a process is the first that does not exist, from the  *)
(* start of the ring once all are there; the others follow each other.     *)
NewSeq ==
  LET tag  == IF m_is_daily THEN day ELSE 0
      free == {s \in FirstSeq..MaxFile : <<tag, s>> \notin DOMAIN disk}
  IN  IF m_log_file_path # None THEN FirstSeq
      ELSE IF free # {} THEN CHOOSE s \in free : \A t \in free : s <= t
      ELSE 1

(* fopen "wb" creates the file or empties it. *)
Created(n) ==
  [x \in DOMAIN disk \union {n} |-> IF x = n THEN <<>> ELSE disk[x]]

PrintTo(n, files, size, m, nth) ==
  /\ disk' = [files EXCEPT ![n] = Append(@, m)]
  /\ m_printed_size' = size + Size(m)
  /\ logged' = Append(logged, [m |-> m, d |-> n[1], k |-> nth])

(* The message is lost, with the files and the size as they are by then. *)
NotPrinted(files, size) ==
  /\ fails < MaxFail /\ fails' = fails + 1
  /\ disk' = files /\ m_printed_size' = size
  /\ UNCHANGED logged

(* localtime may fail at the beginning and fprintf at the end; when a file *)
(* cannot be created its path and number are kept all the same.            *)
WriteLog(m) ==
  \/ /\ NotPrinted(disk, m_printed_size)
     /\ UNCHANGED <<m_day, m_seq, m_file, m_log_file_path, opened>>
  \/ /\ ~Rotate
     /\ PrintTo(m_file, disk, m_printed_size, m, Len(opened))
     /\ UNCHANGED <<m_day, m_seq, m_file, m_log_file_path, fails, opened>>
  \/ LET n == <<IF m_is_daily THEN day ELSE 0, NewSeq>> IN
     /\ Rotate
     /\ m_seq' = NewSeq /\ m_log_file_path' = n
     /\ \/ /\ m_file' = n /\ m_day' = day
           /\ opened' = Append(opened, n)
           /\ \/ PrintTo(n, Created(n), 0, m, Len(opened) + 1) /\ UNCHANGED fails
              \/ NotPrinted(Created(n), 0)
        \/ /\ NotPrinted(disk, IF m_file # None THEN 0 ELSE m_printed_size)
           /\ m_file' = None /\ UNCHANGED <<m_day, opened>>

(* handle_msg: the exit message is no task. *)
LogHandle ==
  /\ Handle
  /\ IF msg = Exit THEN UNCHANGED fileVars ELSE WriteLog(msg)
  /\ UNCHANGED <<m_initialized, m_is_daily, day>>

----------------------------------------------------------------------------
(* initialize does not look at the result of start. *)
Initialize ==
  /\ ~m_initialized /\ m_initialized' = TRUE
  /\ Start
  /\ UNCHANGED <<m_is_daily, day, fileVars>>

(* The rest of uninitialize, after stop. *)
CloseFile ==
  /\ m_file' = None
  /\ m_printed_size' = IF m_file # None THEN 0 ELSE m_printed_size
  /\ UNCHANGED <<m_is_daily, day, m_day, m_seq, m_log_file_path, disk, fails,
                 opened, logged>>

(* stop returns at once when there is no thread. *)
Uninitialize ==
  /\ stopper = "idle" /\ m_initialized /\ m_initialized' = FALSE
  /\ IF running
     THEN Stop /\ UNCHANGED <<m_is_daily, day, fileVars>>
     ELSE CloseFile /\ UNCHANGED vars

Stopped == StopJoin /\ CloseFile /\ UNCHANGED m_initialized

NextDay ==
  /\ m_is_daily /\ day < MaxDay /\ day' = day + 1
  /\ UNCHANGED <<vars, m_initialized, m_is_daily, fileVars>>

LogDone == Done /\ ~m_initialized /\ UNCHANGED logVars

QueueStep ==
  /\ \/ ProducerNext \/ Test \/ Get \/ Woken \/ Clear \/ SpuriousWake
     \/ CreateThread \/ StopPut \/ StopSignal \/ Undefined
  /\ UNCHANGED logVars

LogNext == \/ QueueStep \/ LogHandle \/ Initialize \/ Uninitialize \/ Stopped
           \/ NextDay \/ LogDone

LogSpec == LoggerInit /\ [][LogNext]_allVars

(* Every thread that has begun a call or runs the loop keeps going; nobody *)
(* is obliged to log, to initialize or to uninitialize.                    *)
FairLogSpec ==
  /\ LogSpec
  /\ WF_allVars(LogHandle \/ ((Test \/ Get \/ Woken \/ Clear)
                                /\ UNCHANGED logVars))
  /\ WF_allVars(Stopped \/ ((CreateThread \/ StopPut \/ StopSignal)
                              /\ UNCHANGED logVars))
  /\ \A p \in Producers :
       WF_allVars((PutLocked(p) \/ PutSignal(p)) /\ UNCHANGED logVars)

----------------------------------------------------------------------------
(* As long as no write fails, a message can be read until MaxFile later    *)
(* files of its day have been created, and no longer: across days,         *)
(* restarts of the logger and files found at the start, rotation gives up  *)
(* the oldest file.                                                        *)
Retained ==
  fails = 0 =>
    \A i \in DOMAIN logged :
      LET e == logged[i]
          later == {k \in (e.k + 1)..Len(opened) : opened[k][1] = e.d}
      IN  (\E n \in DOMAIN disk : n[1] = e.d /\ e.m \in Range(disk[n]))
            <=> Cardinality(later) < MaxFile

(* A file holds a part of what was printed without a gap, also after fopen *)
(* failed and left the ring out of step.                                   *)
WholeFiles ==
  \A n \in DOMAIN disk :
    \E i \in 1..(Len(logged) + 1), j \in 0..Len(logged) :
      disk[n] = [k \in 1..(j - i + 1) |-> logged[i + k - 1].m]

(* No file goes on after the message that took it over the limit: before   *)
(* its last message a file holds small ones only, MaxSize of them at most. *)
FileBounded ==
  \A n \in DOMAIN disk :
    /\ Len(disk[n]) <= MaxSize + 1
    /\ \A i \in 1..(Len(disk[n]) - 1) : disk[n][i][2] \notin Big

(* What rotation leaves on the disk, whatever fails: whole parts of the    *)
(* log in files that respect m_max_size.                                   *)
FilesSound == WholeFiles /\ FileBounded

(* A message in the queue of a running logger is written, unless the       *)
(* logger is stopped first or a write fails.                               *)
AcceptedIsLogged ==
  \A m \in Messages :
    m \in Range(queue) /\ running
      ~> \/ \E i \in DOMAIN logged : logged[i].m = m
         \/ ~running \/ fails > 0 \/ ~NoEmptyPop
=============================================================================
