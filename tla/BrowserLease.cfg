CONSTANTS
    c1 = c1
    c2 = c2
    v1 = v1
    b1 = b1
    b2 = b2
    None = None
    Calls <- MCCalls
    Clients <- MCClients
    Browsers <- MCBrowsers
    MaxExits = 1
SPECIFICATION BrowserSpec
 
PROPERTIES
    
    LeaseComesFree
