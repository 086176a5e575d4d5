CONSTANTS
    Tasks = {1, 2, 3, 4}
    Item <- MCItem
    ColorPart <- MCPart
    Color <- MCColor
    DefaultColor <- MCDefaultColor
    Process <- MCProcess
    Stage <- MCStage
    Dur <- MCDur
    Dry <- MCDry
    Skill <- MCSkill
    OrderOf <- MCOrderOf
    Workers = {1, 2}
    Skills <- MCSkills
    SkillPrio <- MCSkillPrio
    Hours <- MCHours
    Barred <- MCBarred
    Rules <- MCRules
    Versions = {"V1", "V2"}
    Given = {1}
    Fridays = {2}
    Holidays = {}
    NewHolidays = {1, 3}
    Days = {1}
    Batches <- MCBatches
    Requests = {r1, r2}
    Horizon = 3
    MaxOps = 3
    MaxGen = 1
SPECIFICATION Spec
SYMMETRY MCSymmetry
INVARIANTS ScheduleIsSound RulesRespected WaitingHasWaker
PROPERTIES OrderKept OpenDaysOnly
CHECK_DEADLOCK FALSE
