SPECIFICATION RenderSpec
CONSTANTS
    MemSize = 4
    PageSize = 2
    Lines = 5
    ActiveStart = 1
    VbiLine = 4
    MaxLines = 2
    RowBytes = 1
    MaxEntries = 4
    Lists <- MCLists
    Pokes <- MCPokes
INVARIANT GlyphRowIsLine
