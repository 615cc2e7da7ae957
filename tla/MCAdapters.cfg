CONSTANTS
    PluginMax = 2
    Descs <- MCDescs
    MaxDepth = 3
    MaxErrors = 1
    MaxDrift = 2
    Modules = {"hello"}
    Width = 3
    Height = 2
    TabStop = 2
    WordMod = 256
    Nibbles = 2
    Char <- MCChar
    Texts <- MCTexts
    Args <- MCArgs
    Greeting <- MCGreeting
    MaxChars = 5
SPECIFICATION AdaptersSpec
INVARIANTS
    PluginInv
    HooksPaired
    ScreenInv
    SerialCarriesText
PROPERTIES
    LoadedAfterInit
    PrintReturns
