---------------------------- MODULE GmailLabels ----------------------------
(***************************************************************************)
(* The labels of one mailbox and the two label managers that share it.     *)
(*                                                                         *)
(* main.py starts with utils/gmail_label_manager: it deletes every label   *)
(* with a managed prefix, which takes it off all messages, creates those   *)
(* of its configuration, and then labels the emails of its pipelines.  The *)
(* organiser of email_ai runs in another process: it lists the labels,     *)
(* creates those of its own that are missing, and relabels messages with   *)
(* the ids it then knows.  "HR" and "IT Support" belong to both.           *)
(***************************************************************************)
EXTENDS Naturals, Sequences, FiniteSets, FiniteSetsExt, SequencesExt

CONSTANTS
    LabelNames,     \* names of labels
    Depth,          \* how many "/" a name has
    LabelConfigs,   \* what gmail_label.json may hold: the names of LABEL_HIERARCHY (a
                    \*   parent, then its children; a name may come again),
                    \*   alias_map and the names with a stale prefix
    EndsWith,       \* the names that end with a team's name
    FallbackLabel,  \* Customer Support/Customer Issues
    OrganiserLabels,\* the labels of email_ai/label_manager, in order
    Mails,          \* messages of the mailbox
    LabelAsks,      \* <<category, team>> of a classified email
    LabelFaults     \* bounds failing calls and restarts

ASSUME LabelsAssumption ==
    /\ Depth \in [LabelNames -> Nat]
    /\ \A cfg \in LabelConfigs :
          /\ cfg.labels \in Seq(LabelNames)
          /\ \A category \in DOMAIN cfg.alias : cfg.alias[category] \in LabelNames
          /\ cfg.prefixed \subseteq LabelNames
    /\ FallbackLabel \in LabelNames
    /\ OrganiserLabels \in Seq(LabelNames)
    /\ Mails # {}
    /\ LabelFaults \in Nat

VARIABLES
    gmailLabels, \* the user labels that exist
    worn,        \* the labels each message carries
    dedupKey,    \* messages with a key label:<id> in Redis
    labelConfig, \* LABEL_HIERARCHY, _LABEL_ALIAS and _MANAGED_PREFIXES
    mainProc,    \* where main.py is
    organiser,   \* where the organiser is, the label ids it knows, the message's labels
    takenOff,    \* history: messages that main.py labelled and someone unlabelled since
    labelFaults

labelVars == <<gmailLabels, worn, dedupKey, labelConfig, mainProc, organiser, takenOff, labelFaults>>

NoName == "no label"
MyLabels == ToSet(OrganiserLabels)
MainDown == [pc |-> "down", todo |-> {}, mail |-> CHOOSE x \in Mails : TRUE,
             target |-> NoName, clean |-> FALSE, said |-> FALSE]
OrganiserIdle == [pc |-> "idle", todo |-> {}, known |-> [n \in LabelNames |-> "none"],
                  mail |-> CHOOSE x \in Mails : TRUE, had |-> {}]

MainStates ==
    [pc : {"down", "list", "delete", "create", "polling", "apply", "modify"},
     todo : SUBSET LabelNames, mail : Mails, target : LabelNames \cup {NoName},
     clean : BOOLEAN, said : BOOLEAN]
OrganiserStates ==
    [pc : {"idle", "list", "create", "label"}, todo : SUBSET LabelNames,
     known : [LabelNames -> {"none", "valid", "deleted"}],
     mail : Mails, had : SUBSET LabelNames]

LabelsTypeOK ==
    /\ gmailLabels \subseteq LabelNames
    /\ worn \in [Mails -> SUBSET LabelNames]
    /\ dedupKey \subseteq Mails /\ takenOff \subseteq Mails
    /\ labelConfig \in LabelConfigs
    /\ mainProc \in MainStates
    /\ organiser \in OrganiserStates
    /\ labelFaults \in 0..LabelFaults

LabelsInit ==
    /\ gmailLabels \in {{}, LabelNames}
    /\ worn = [x \in Mails |-> {}]
    /\ dedupKey = {} /\ takenOff = {}
    /\ labelConfig \in LabelConfigs
    /\ mainProc = MainDown /\ organiser = OrganiserIdle
    /\ labelFaults = 0

LabelFault == labelFaults < LabelFaults /\ labelFaults' = labelFaults + 1

\* Restart or a failing call: what the bootstrap promises is then off.
Soiled(pc, todo) == mainProc' = [mainProc EXCEPT !.pc = pc, !.todo = todo, !.clean = FALSE]
MainGoes(pc, todo) == mainProc' = [mainProc EXCEPT !.pc = pc, !.todo = todo]

-----------------------------------------------------------------------------

(* main.py: bootstrap_labels.                                              *)

all_label_names(cfg) == ToSet(cfg.labels)

\* Labels are created in the order of the list that names them, each where it comes
\* first.
FirstOf(list, names) == list[Min({i \in DOMAIN list : list[i] \in names})]

StartMain ==
    /\ mainProc.pc = "down"
    /\ labelConfig' \in LabelConfigs
    /\ mainProc' = [MainDown EXCEPT !.pc = "list", !.clean = TRUE]
    /\ UNCHANGED <<gmailLabels, worn, dedupKey, organiser, takenOff, labelFaults>>

\* The managed labels; a list that fails leaves all of them.
ListManaged ==
    /\ mainProc.pc = "list"
    /\ \/ MainGoes("delete", gmailLabels \cap labelConfig.prefixed) /\ UNCHANGED labelFaults
       \/ Soiled("delete", {}) /\ LabelFault
    /\ UNCHANGED <<gmailLabels, worn, dedupKey, labelConfig, organiser, takenOff>>

\* A deleted label leaves every message, and the id the organiser knows is of no use.
Deleted(n) ==
    /\ gmailLabels' = gmailLabels \ {n}
    /\ worn' = [x \in Mails |-> worn[x] \ {n}]
    /\ takenOff' = takenOff \cup {x \in Mails : n \in worn[x]}
    /\ organiser' = IF organiser.pc = "list"
                    THEN [organiser EXCEPT !.had = @ \ {n}]
                    ELSE [organiser EXCEPT !.known[n] = IF @ = "valid" THEN "deleted" ELSE @]

\* The deepest names first, those of one depth as Gmail listed them.
Deepest(names) == {n \in names : \A k \in names : Depth[k] <= Depth[n]}

DeleteManaged ==
    /\ mainProc.pc = "delete"
    /\ \/ /\ mainProc.todo = {}
          /\ MainGoes("create", all_label_names(labelConfig))
          /\ UNCHANGED <<gmailLabels, worn, organiser, takenOff, labelFaults>>
       \/ \E n \in Deepest(mainProc.todo) :
             LET left == mainProc.todo \ {n}
             IN \/ /\ Deleted(n)
                   /\ \/ MainGoes("delete", left) /\ UNCHANGED labelFaults
                      \/ Soiled("delete", left) /\ LabelFault
                \/ /\ Soiled("delete", left) /\ LabelFault
                   /\ UNCHANGED <<gmailLabels, worn, organiser, takenOff>>
    /\ UNCHANGED <<dedupKey, labelConfig>>

\* _create_label: a label that exists meanwhile is as good; any other failure leaves
\* the label out.
CreateConfigured ==
    LET n    == FirstOf(labelConfig.labels, mainProc.todo)
        left == mainProc.todo \ {n}
    IN /\ mainProc.pc = "create"
       /\ IF mainProc.todo = {}
          THEN MainGoes("polling", {}) /\ UNCHANGED <<gmailLabels, labelFaults>>
          ELSE \/ /\ gmailLabels' = gmailLabels \cup {n}
                  /\ \/ MainGoes("create", left) /\ UNCHANGED labelFaults
                     \/ Soiled("create", left) /\ LabelFault
               \/ /\ Soiled("create", left) /\ LabelFault
                  /\ UNCHANGED gmailLabels
       /\ UNCHANGED <<worn, dedupKey, labelConfig, organiser, takenOff>>

RestartMain ==
    /\ mainProc.pc # "down" /\ LabelFault
    /\ mainProc' = MainDown
    /\ UNCHANGED <<gmailLabels, worn, dedupKey, labelConfig, organiser, takenOff>>

-----------------------------------------------------------------------------

(* main.py: apply_classification_label, for one email after the other.     *)

\* The valid names are a set, so of several that end with the team's name any one.
resolve_label(category, team) ==
    LET valid == all_label_names(labelConfig)
        suffixed == {n \in valid \cap EndsWith[team] : Depth[n] > 0}
    IN CASE team \in valid -> {team}
         [] team \notin valid /\ suffixed # {} -> suffixed
         [] team \notin valid /\ suffixed = {} /\ category \in DOMAIN labelConfig.alias ->
              {labelConfig.alias[category]}
         [] team \notin valid /\ suffixed = {} /\ category \notin DOMAIN labelConfig.alias ->
              IF category \in valid THEN {category} ELSE {FallbackLabel}

\* The call ends and the next email's begins; said is what it answered.
Answers(said) == mainProc' = [mainProc EXCEPT !.pc = "polling", !.said = said]

\* A key that cannot be read counts as none.
StartApply ==
    /\ mainProc.pc = "polling"
    /\ \E x \in Mails :
          \/ /\ x \in dedupKey
             /\ mainProc' = [mainProc EXCEPT !.mail = x, !.said = TRUE]
             /\ UNCHANGED labelFaults
          \/ \E ask \in LabelAsks : \E n \in resolve_label(ask[1], ask[2]) :
                /\ mainProc' = [mainProc EXCEPT !.pc = "apply", !.mail = x, !.target = n,
                                                !.said = FALSE]
                /\ (x \notin dedupKey /\ UNCHANGED labelFaults) \/ LabelFault
    /\ UNCHANGED <<gmailLabels, worn, dedupKey, labelConfig, organiser, takenOff>>

FindLabel ==
    /\ mainProc.pc = "apply"
    /\ \/ mainProc.target \in gmailLabels /\ MainGoes("modify", {}) /\ UNCHANGED labelFaults
       \/ mainProc.target \notin gmailLabels /\ Answers(FALSE) /\ UNCHANGED labelFaults
       \/ Answers(FALSE) /\ LabelFault
    /\ UNCHANGED <<gmailLabels, worn, dedupKey, labelConfig, organiser, takenOff>>

\* Mutant: the key is set before the message is changed.
AddLabelKeyFirst ==
    LET x == mainProc.mail
    IN /\ mainProc.pc = "modify"
       /\ dedupKey' = dedupKey \cup {x}
       /\ \/ /\ worn' = [worn EXCEPT ![x] = @ \cup {mainProc.target}]
             /\ takenOff' = takenOff \ {x}
             /\ Answers(TRUE) /\ UNCHANGED labelFaults
          \/ Answers(FALSE) /\ LabelFault /\ UNCHANGED <<worn, takenOff>>
       /\ UNCHANGED <<gmailLabels, labelConfig, organiser>>

\* The key is set after the message was changed, or not if Redis refuses.
AddLabel ==
    LET x == mainProc.mail
    IN /\ mainProc.pc = "modify"
       /\ \/ /\ worn' = [worn EXCEPT ![x] = @ \cup {mainProc.target}]
             /\ takenOff' = takenOff \ {x}
             /\ \/ dedupKey' = dedupKey \cup {x} /\ Answers(TRUE) /\ UNCHANGED labelFaults
                \/ UNCHANGED dedupKey /\ LabelFault /\ \E said \in BOOLEAN : Answers(said)
          \/ Answers(FALSE) /\ LabelFault /\ UNCHANGED <<worn, takenOff, dedupKey>>
       /\ UNCHANGED <<gmailLabels, labelConfig, organiser>>

DedupExpires ==
    /\ dedupKey # {}
    /\ \E x \in dedupKey : dedupKey' = dedupKey \ {x}
    /\ UNCHANGED <<gmailLabels, worn, labelConfig, mainProc, organiser, takenOff, labelFaults>>

-----------------------------------------------------------------------------

(* The organiser: it reads a message, then bootstrap_labels, then labels.  *)

OrganiserReads ==
    /\ organiser.pc = "idle"
    /\ \E x \in Mails :
          organiser' = [organiser EXCEPT !.pc = "list", !.mail = x, !.had = worn[x]]
    /\ UNCHANGED <<gmailLabels, worn, dedupKey, labelConfig, mainProc, takenOff, labelFaults>>

OrganiserEnds == organiser' = OrganiserIdle

\* The cache is replaced by what exists; only what is missing is created.
OrganiserLists ==
    /\ organiser.pc = "list"
    /\ \/ /\ organiser' = [organiser EXCEPT !.pc = "create",
                 !.todo = MyLabels \ gmailLabels,
                 !.known = [n \in LabelNames |-> IF n \in gmailLabels THEN "valid" ELSE "none"]]
          /\ UNCHANGED labelFaults
       \/ OrganiserEnds /\ LabelFault
    /\ UNCHANGED <<gmailLabels, worn, dedupKey, labelConfig, mainProc, takenOff>>

\* Creating a label that main.py has created meanwhile is refused, and the execution
\* ends.
OrganiserCreates ==
    LET n == FirstOf(OrganiserLabels, organiser.todo)
    IN /\ organiser.pc = "create"
       /\ IF organiser.todo = {}
          THEN /\ organiser' = [organiser EXCEPT !.pc = "label"]
               /\ UNCHANGED <<gmailLabels, labelFaults>>
          ELSE \/ /\ n \notin gmailLabels
                  /\ gmailLabels' = gmailLabels \cup {n}
                  /\ \/ /\ organiser' = [organiser EXCEPT !.todo = @ \ {n},
                                                          !.known[n] = "valid"]
                        /\ UNCHANGED labelFaults
                     \/ OrganiserEnds /\ LabelFault
               \/ n \in gmailLabels /\ OrganiserEnds /\ UNCHANGED <<gmailLabels, labelFaults>>
               \/ OrganiserEnds /\ LabelFault /\ UNCHANGED gmailLabels
       /\ UNCHANGED <<worn, dedupKey, labelConfig, mainProc, takenOff>>

\* Its label is added and those of its labels that the message had are removed, "HR"
\* of main.py among them.  An id that was deleted is refused, as is one that is both
\* added and removed; a message that has just the right label is left alone.
Relabel(n) ==
    LET x == organiser.mail
        removed == organiser.had \cap MyLabels
        refused == n \in removed \/ \E k \in removed \cup {n} : organiser.known[k] = "deleted"
    IN \/ refused /\ UNCHANGED <<worn, takenOff>>
       \/ /\ ~ refused
          /\ worn' = [worn EXCEPT ![x] = (@ \ removed) \cup {n}]
          /\ takenOff' = IF worn[x] \cap removed # {} THEN takenOff \cup {x} ELSE takenOff

OrganiserApplies ==
    /\ organiser.pc = "label"
    /\ \E n \in MyLabels :
          \/ Relabel(n) /\ UNCHANGED labelFaults
          \/ UNCHANGED <<worn, takenOff>> /\ LabelFault
    /\ OrganiserEnds
    /\ UNCHANGED <<gmailLabels, dedupKey, labelConfig, mainProc>>

LabelsNext ==
    \/ StartMain \/ ListManaged \/ DeleteManaged \/ CreateConfigured \/ RestartMain
    \/ StartApply \/ FindLabel \/ AddLabel \/ DedupExpires
    \/ OrganiserReads \/ OrganiserLists \/ OrganiserCreates \/ OrganiserApplies

LabelsSpec == LabelsInit /\ [][LabelsNext]_labelVars

-----------------------------------------------------------------------------

(* Properties                                                              *)

\* After a bootstrap in which no call failed, every label of the configuration is
\* there and stays there, so each email finds its label, although the organiser
\* creates labels at the same time.
BootstrapIsComplete ==
    mainProc.clean /\ mainProc.pc \in {"polling", "apply", "modify"} =>
       all_label_names(labelConfig) \subseteq gmailLabels

\* "Labelled", told from the message or from the key of an earlier call, is true: main.py
\* labelled the message, and what it does not carry was taken off by the next start or
\* by the organiser.
LabelledIsTrue ==
    \A x \in Mails :
       \/ mainProc.pc = "polling" /\ mainProc.said /\ mainProc.mail = x
       \/ x \in dedupKey
       => worn[x] # {} \/ x \in takenOff

LabelsAreTrue == BootstrapIsComplete /\ LabelledIsTrue
=============================================================================
