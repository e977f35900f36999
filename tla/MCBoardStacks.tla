--------------------------- MODULE MCBoardStacks ---------------------------
(* Small boards for TLC: a board that is worked on, one with zombies, and the *)
(* seeded board with its decks (the constants of the configuration).          *)
EXTENDS BoardStacks

VARIABLE table   \* which of the three boards this is

NoDecks     == <<>>
CollectDeck == <<"deck.collect">>

StackCmds == {"stack.merge", "stack.split", "stack.unstack", "stack.bringToFront",
              "loot.collect_stack"}
TaskCmds  == {"task.create_blank", "task.spawn_existing", "task.activate",
              "task.set_title", "task.set_task_id", "task.add_modifier",
              "task.assign_villager", "task.complete_stack"}
PlayCmds  == {"zombie.clear", "food.consume", "resource.gather", "world.end_day"}
DeckCmds  == {"board.seed_default", "deck.spawn_pack", "deck.open_pack"}

SeedCmds   == DeckCmds \cup {"stack.merge", "world.end_day",
                "task.activate", "resource.gather"}

Worked == INSTANCE BoardStacks WITH
  Cmds <- StackCmds \cup TaskCmds \cup {"card.spawn", "resource.gather"},
  SpawnDefs <- {"villager.basic", "resource.tree", "task.blank", "loot.parts"},
  DrawDefs <- {"loot.parts"}, RowMods <- {"mod.next_action", "mod.deadline_pin"},
  ProgressionDecks <- NoDecks, MaxLeft <- 1, MaxDraws <- 1, MaxZombies <- 0, MaxZ <- 14, MaxCards <- 3

\* stack.remove takes whatever the stack holds: here only stacks without a villager,
\* so that VillagersSurvive can be asked of every other command.
Cleared == INSTANCE BoardStacks WITH
  Cmds <- {"stack.remove"}, SpawnDefs <- {}, DrawDefs <- {}, RowMods <- {},
  ProgressionDecks <- NoDecks, MaxLeft <- 1, MaxDraws <- 0, MaxZombies <- 0, MaxZ <- 14, MaxCards <- 3

Haunted == INSTANCE BoardStacks WITH
  Cmds <- StackCmds \cup PlayCmds \cup {"card.spawn", "quest.claim_reward",
            "task.create_blank", "task.add_modifier", "task.complete_stack"},
  SpawnDefs <- {"villager.basic", "food.apple", "mod.next_action"},
  DrawDefs <- {"zombie.default_zombie", "food.apple"}, RowMods <- {"mod.next_action"},
  ProgressionDecks <- NoDecks, MaxLeft <- 2, MaxDraws <- 1, MaxZombies <- 1, MaxZ <- 14, MaxCards <- 3

MCInit == Init /\ table \in {"worked", "haunted", "seeded"}
MCNext ==
  /\ UNCHANGED table
  /\ \/ table = "worked"  /\ Worked!Next
     \/ table = "worked"  /\ Cleared!Next /\ Villagers(board) \subseteq Villagers(board')
     \/ table = "haunted" /\ Haunted!Next
     \/ table = "seeded"  /\ Next
MCSpec == MCInit /\ [][MCNext]_<<board, table>>
=============================================================================
